---- MODULE Spec2Model ----
(***************************************************************************)
(* Runtime core of the fake MPU6050 accelerometer + gyroscope driver       *)
(* (src/fake6050.c): channel enable/disable, poll-interval changes, the    *)
(* shared sample-rate divisor, the per-channel hrtimer and poll thread.    *)
(*                                                                         *)
(* struct mpu6050_sensor is the record `sensor`; its fields keep the       *)
(* names of the C struct.  Every caller-facing operation runs under        *)
(* sensor->op_lock from its first to its last statement, so one call is    *)
(* one action.  Time is counted in milliseconds in `now`.                  *)
(***************************************************************************)
EXTENDS Integers, Naturals, Sequences, FiniteSets, TLC

VARIABLES sensor, now, last, interval_ns, written, count, pc

vars == <<sensor, now, last, interval_ns, written, count, pc>>

(***************************************************************************)
(* Bounds of the model.                                                    *)
(***************************************************************************)
MaxTime == 20
TickMs == 10
Span == 2
AxisSpan == 1
PlaceSpan == 1
MaxStores == 1
MaxEvents == 2

(***************************************************************************)
(* Program constants.                                                      *)
(***************************************************************************)
EINVAL == 22
EBUSY == 16
MPU6050_ACCEL_MIN_POLL_INTERVAL_MS == 10
MPU6050_ACCEL_MAX_POLL_INTERVAL_MS == 5000
MPU6050_ACCEL_DEFAULT_POLL_INTERVAL_MS == 200
MPU6050_GYRO_MIN_POLL_INTERVAL_MS == 10
MPU6050_GYRO_MAX_POLL_INTERVAL_MS == 5000
MPU6050_GYRO_DEFAULT_POLL_INTERVAL_MS == 200
MSEC_PER_SEC == 1000
NSEC_PER_MSEC == 1000000

(* fake6050.h is not among the sources.  The values below are the ones the *)
(* code in fake6050.c implies: mpu6050_get_sample_interval reads a divisor *)
(* as (div+1) ms with the filter on and (div+1)/8 ms with it off, i.e. an  *)
(* output data rate of 1000 Hz and 8000 Hz, and the delay ranges are the   *)
(* ones an 8-bit divisor can express at those rates.                       *)
ODR_DLPF_DIS == 8000
ODR_DLPF_ENA == 1000
DELAY_MS_MIN_DLPF == 1
DELAY_MS_MAX_DLPF == 256
DELAY_MS_MIN_NODLPF == 1
DELAY_MS_MAX_NODLPF == 32
INIT_FIFO_RATE == 200
MPU_DLPF_256HZ_NOLPF2 == 0
MPU_DLPF_42HZ == 3
MPU_DLPF_RESERVED == 7

LpfModes == MPU_DLPF_256HZ_NOLPF2 .. MPU_DLPF_RESERVED

(* (u8) cast *)
U8(x) == x % 256

(***************************************************************************)
(* hrtimer: a one-shot timer is either inactive or enqueued with one       *)
(* absolute expiry; starting an enqueued timer moves that expiry.          *)
(***************************************************************************)
TimerIdle == [active |-> FALSE, expires |-> 0]

hrtimer_start(ms, t) == [active |-> TRUE, expires |-> t + ms]

hrtimer_try_to_cancel(timer) ==
    [ret |-> IF timer.active THEN 1 ELSE 0, timer |-> TimerIdle]

(***************************************************************************)
(* Power, engine and context helpers.  Each returns [ret, s]: the C return *)
(* value and the sensor record after the call.                             *)
(***************************************************************************)
mpu6050_power_ctl_stuck_on(s, on) ==
    IF on /\ ~s.power_enabled
    THEN [ret |-> 0, s |-> [s EXCEPT !.power_enabled = TRUE]]
    ELSE [ret |-> 0, s |-> s]

mpu6050_power_ctl(s, on) ==
    IF on /\ ~s.power_enabled
    THEN [ret |-> 0, s |-> [s EXCEPT !.power_enabled = TRUE]]
    ELSE IF ~on /\ s.power_enabled
    THEN [ret |-> 0, s |-> [s EXCEPT !.power_enabled = FALSE]]
    ELSE [ret |-> 0, s |-> s]

(* only sleeps and computes a local register image: no field changes *)
mpu6050_switch_engine(s, en, gyro) == [ret |-> 0, s |-> s]

(* mpu6050_set_lpa_freq stores the value it is given and returns 0 *)
mpu6050_restore_context(s) == [ret |-> 0, s |-> s]

(* a retry loop over a constant: no field changes *)
mpu6050_reset_chip(s) == s

(* the disable branch of both enable functions: resume_work is cancelled,  *)
(* and waited for, when work_pending() finds it queued                     *)
cancel_pending_resume_work(s) ==
    IF s.resume_work THEN [s EXCEPT !.resume_work = FALSE] ELSE s

(* switching the gyro engine switches the accelerometer engine flag too *)
mpu6050_gyro_enable_both_engines(s, on) ==
    IF s.cfg.is_asleep THEN [ret |-> -EINVAL, s |-> s]
    ELSE IF on
    THEN [ret |-> 0,
          s |-> [s EXCEPT !.cfg.gyro_enable = 1, !.cfg.accel_enable = 1,
                          !.cfg.enable = 1]]
    ELSE [ret |-> 0,
          s |-> [s EXCEPT !.cfg.gyro_enable = 0, !.cfg.accel_enable = 0,
                          !.cfg.enable = 0]]

mpu6050_gyro_enable(s, on) ==
    IF s.cfg.is_asleep THEN [ret |-> -EINVAL, s |-> s]
    ELSE IF on
    THEN LET e == mpu6050_switch_engine(s, TRUE, TRUE) IN
         IF e.ret # 0 THEN e
         ELSE [ret |-> 0,
               s |-> [e.s EXCEPT !.cfg.gyro_enable = 1, !.cfg.enable = 1]]
    ELSE LET e == mpu6050_switch_engine(cancel_pending_resume_work(s),
                                        FALSE, TRUE) IN
         IF e.ret # 0 THEN e
         ELSE [ret |-> 0,
               s |-> [e.s EXCEPT !.cfg.gyro_enable = 0,
                                 !.cfg.enable = IF e.s.cfg.accel_enable = 0
                                                THEN 0 ELSE @]]

mpu6050_accel_enable(s, on) ==
    IF s.cfg.is_asleep THEN [ret |-> -EINVAL, s |-> s]
    ELSE IF on
    THEN LET e == mpu6050_switch_engine(s, TRUE, FALSE) IN
         IF e.ret # 0 THEN e
         ELSE [ret |-> 0,
               s |-> [e.s EXCEPT !.cfg.accel_enable = 1, !.cfg.enable = 1]]
    ELSE LET e == mpu6050_switch_engine(cancel_pending_resume_work(s),
                                        FALSE, FALSE) IN
         IF e.ret # 0 THEN e
         ELSE [ret |-> 0,
               s |-> [e.s EXCEPT !.cfg.accel_enable = 0,
                                 !.cfg.enable = IF e.s.cfg.gyro_enable = 0
                                                THEN 0 ELSE @]]

(***************************************************************************)
(* Rate negotiation: mpu6050_config_sample_rate, split at its three steps. *)
(***************************************************************************)
(* the slower channel wins: the comparison of line 755 turned round *)
rate_delay_select_slower(accel_ms, gyro_ms) ==
    IF accel_ms >= gyro_ms THEN accel_ms ELSE gyro_ms

rate_delay_select(accel_ms, gyro_ms) ==
    IF accel_ms <= gyro_ms THEN accel_ms ELSE gyro_ms

rate_lpf_on(lpf) == (lpf # MPU_DLPF_256HZ_NOLPF2) /\ (lpf # MPU_DLPF_RESERVED)

(* the upper clamps of lines 763 and 770 left out *)
rate_delay_clamp_no_max(delay_ms, lpf) ==
    IF rate_lpf_on(lpf)
    THEN IF delay_ms < DELAY_MS_MIN_DLPF THEN DELAY_MS_MIN_DLPF ELSE delay_ms
    ELSE IF delay_ms < DELAY_MS_MIN_NODLPF THEN DELAY_MS_MIN_NODLPF ELSE delay_ms

rate_delay_clamp(delay_ms, lpf) ==
    IF rate_lpf_on(lpf)
    THEN LET d == IF delay_ms > DELAY_MS_MAX_DLPF
                  THEN DELAY_MS_MAX_DLPF ELSE delay_ms
         IN IF d < DELAY_MS_MIN_DLPF THEN DELAY_MS_MIN_DLPF ELSE d
    ELSE LET d == IF delay_ms > DELAY_MS_MAX_NODLPF
                  THEN DELAY_MS_MAX_NODLPF ELSE delay_ms
         IN IF d < DELAY_MS_MIN_NODLPF THEN DELAY_MS_MIN_NODLPF ELSE d

(* u32 arithmetic (the product is at most 8000 * 5000 and the quotient at   *)
(* least 1, so nothing wraps in 32 bits), then the cast to u8               *)
rate_div_of(delay_ms, lpf) ==
    IF rate_lpf_on(lpf)
    THEN U8(((ODR_DLPF_ENA * delay_ms) \div MSEC_PER_SEC) - 1)
    ELSE U8(((ODR_DLPF_DIS * delay_ms) \div MSEC_PER_SEC) - 1)

(* Besides [ret, s] the result says in `stored` whether the call reached   *)
(* the assignment of line 779.                                             *)
(* returns before the divisor is stored *)
mpu6050_config_sample_rate_no_store(s) ==
    IF s.cfg.is_asleep THEN [ret |-> -EINVAL, s |-> s, stored |-> FALSE]
    ELSE [ret |-> 0, s |-> s, stored |-> FALSE]

(* the test of line 777 left out: the divisor is stored on every call *)
mpu6050_config_sample_rate_always_store(s) ==
    IF s.cfg.is_asleep THEN [ret |-> -EINVAL, s |-> s, stored |-> FALSE]
    ELSE LET delay_ms == rate_delay_clamp(
                             rate_delay_select(s.accel_poll_ms, s.gyro_poll_ms),
                             s.cfg.lpf)
             div == rate_div_of(delay_ms, s.cfg.lpf)
         IN [ret |-> 0, s |-> [s EXCEPT !.cfg.rate_div = div], stored |-> TRUE]

mpu6050_config_sample_rate(s) ==
    IF s.cfg.is_asleep THEN [ret |-> -EINVAL, s |-> s, stored |-> FALSE]
    ELSE LET delay_ms == rate_delay_clamp(
                             rate_delay_select(s.accel_poll_ms, s.gyro_poll_ms),
                             s.cfg.lpf)
             div == rate_div_of(delay_ms, s.cfg.lpf)
         IN IF s.cfg.rate_div = div
            THEN [ret |-> 0, s |-> s, stored |-> FALSE]
            ELSE [ret |-> 0, s |-> [s EXCEPT !.cfg.rate_div = div],
                  stored |-> TRUE]

(* the division by 8 of line 795 left out *)
mpu6050_get_sample_interval_no_div(s) == (s.cfg.rate_div + 1) * NSEC_PER_MSEC

mpu6050_get_sample_interval(s) ==
    IF (s.cfg.lpf = MPU_DLPF_256HZ_NOLPF2) \/ (s.cfg.lpf = MPU_DLPF_RESERVED)
    THEN ((s.cfg.rate_div + 1) * NSEC_PER_MSEC) \div 8
    ELSE (s.cfg.rate_div + 1) * NSEC_PER_MSEC

(***************************************************************************)
(* enable / disable.  t is the time of the call.                           *)
(***************************************************************************)
mpu6050_gyro_set_enable(s, enable, t) ==
    IF enable
    THEN LET p == IF ~s.power_enabled
                  THEN LET pw == mpu6050_power_ctl(s, TRUE) IN
                       IF pw.ret < 0 THEN pw
                       ELSE mpu6050_restore_context(mpu6050_reset_chip(pw.s))
                  ELSE [ret |-> 0, s |-> s]
         IN IF p.ret < 0 THEN [ret |-> p.ret, s |-> p.s, stored |-> FALSE]
            ELSE LET g == mpu6050_gyro_enable(p.s, TRUE) IN
                 IF g.ret # 0
                 THEN [ret |-> -EBUSY, s |-> g.s, stored |-> FALSE]
                 ELSE LET c == mpu6050_config_sample_rate(g.s)
                          s1 == IF ~c.s.batch_gyro
                                THEN [c.s EXCEPT !.gyro_timer =
                                          hrtimer_start(c.s.gyro_poll_ms, t)]
                                ELSE c.s
                      IN [ret |-> c.ret, s |-> [s1 EXCEPT !.gyro_en = 1],
                          stored |-> c.stored]
    ELSE LET s0 == [s EXCEPT !.gyro_en = 0]
             s1 == IF ~s0.batch_gyro
                   THEN [s0 EXCEPT !.gyro_timer =
                             hrtimer_try_to_cancel(s0.gyro_timer).timer]
                   ELSE s0
             g == mpu6050_gyro_enable(s1, FALSE)
         IN IF g.ret # 0 THEN [ret |-> -EBUSY, s |-> g.s, stored |-> FALSE]
            ELSE IF g.s.cfg.accel_enable = 0 /\ g.s.cfg.gyro_enable = 0
            THEN [ret |-> g.ret, s |-> mpu6050_power_ctl(g.s, FALSE).s,
                  stored |-> FALSE]
            ELSE [ret |-> g.ret, s |-> g.s, stored |-> FALSE]

mpu6050_accel_set_enable(s, enable, t) ==
    IF enable
    THEN LET p == IF ~s.power_enabled
                  THEN LET pw == mpu6050_power_ctl(s, TRUE) IN
                       IF pw.ret < 0 THEN pw
                       ELSE mpu6050_restore_context(mpu6050_reset_chip(pw.s))
                  ELSE [ret |-> 0, s |-> s]
         IN IF p.ret < 0 THEN [ret |-> p.ret, s |-> p.s, stored |-> FALSE]
            ELSE LET a == mpu6050_accel_enable(p.s, TRUE) IN
                 IF a.ret # 0
                 THEN [ret |-> -EBUSY, s |-> a.s, stored |-> FALSE]
                 ELSE LET c == mpu6050_config_sample_rate(a.s)
                          s1 == IF ~c.s.batch_accel
                                THEN [c.s EXCEPT !.accel_timer =
                                          hrtimer_start(c.s.accel_poll_ms, t)]
                                ELSE c.s
                      IN [ret |-> c.ret, s |-> [s1 EXCEPT !.accel_en = 1],
                          stored |-> c.stored]
    ELSE LET s0 == [s EXCEPT !.accel_en = 0]
             s1 == IF ~s0.batch_accel
                   THEN [s0 EXCEPT !.accel_timer =
                             hrtimer_try_to_cancel(s0.accel_timer).timer]
                   ELSE s0
             a == mpu6050_accel_enable(s1, FALSE)
         IN IF a.ret # 0 THEN [ret |-> -EBUSY, s |-> a.s, stored |-> FALSE]
            ELSE IF a.s.cfg.accel_enable = 0 /\ a.s.cfg.gyro_enable = 0
            THEN [ret |-> a.ret, s |-> mpu6050_power_ctl(a.s, FALSE).s,
                  stored |-> FALSE]
            ELSE [ret |-> a.ret, s |-> a.s, stored |-> FALSE]

(* op_lock names the thread that holds the mutex, or is "free" *)
mutex_lock(s, th) == [s EXCEPT !.op_lock = th]

(* the mutex is never given back *)
mutex_unlock_skipped(s) == s

mutex_unlock(s) == [s EXCEPT !.op_lock = "free"]

(* The enable branch up to and including hrtimer_start (lines 689-723 and  *)
(* 1004-1038): `exit` says whether the branch left through `goto exit`     *)
(* (or, in the accelerometer, `return`), before the enable flag is set.    *)
mpu6050_gyro_set_enable_arm(s, t) ==
    LET p == IF ~s.power_enabled
             THEN LET pw == mpu6050_power_ctl(s, TRUE) IN
                  IF pw.ret < 0 THEN pw
                  ELSE mpu6050_restore_context(mpu6050_reset_chip(pw.s))
             ELSE [ret |-> 0, s |-> s]
    IN IF p.ret < 0
       THEN [ret |-> p.ret, s |-> p.s, stored |-> FALSE, exit |-> TRUE]
       ELSE LET g == mpu6050_gyro_enable(p.s, TRUE) IN
            IF g.ret # 0
            THEN [ret |-> -EBUSY, s |-> g.s, stored |-> FALSE, exit |-> TRUE]
            ELSE LET c == mpu6050_config_sample_rate(g.s)
                     s1 == IF ~c.s.batch_gyro
                           THEN [c.s EXCEPT !.gyro_timer =
                                     hrtimer_start(c.s.gyro_poll_ms, t)]
                           ELSE c.s
                 IN [ret |-> c.ret, s |-> s1, stored |-> c.stored,
                     exit |-> FALSE]

mpu6050_accel_set_enable_arm(s, t) ==
    LET p == IF ~s.power_enabled
             THEN LET pw == mpu6050_power_ctl(s, TRUE) IN
                  IF pw.ret < 0 THEN pw
                  ELSE mpu6050_restore_context(mpu6050_reset_chip(pw.s))
             ELSE [ret |-> 0, s |-> s]
    IN IF p.ret < 0
       THEN [ret |-> p.ret, s |-> p.s, stored |-> FALSE, exit |-> TRUE]
       ELSE LET a == mpu6050_accel_enable(p.s, TRUE) IN
            IF a.ret # 0
            THEN [ret |-> -EBUSY, s |-> a.s, stored |-> FALSE, exit |-> TRUE]
            ELSE LET c == mpu6050_config_sample_rate(a.s)
                     s1 == IF ~c.s.batch_accel
                           THEN [c.s EXCEPT !.accel_timer =
                                     hrtimer_start(c.s.accel_poll_ms, t)]
                           ELSE c.s
                 IN [ret |-> c.ret, s |-> s1, stored |-> c.stored,
                     exit |-> FALSE]

(* takes op_lock round mpu6050_accel_set_enable *)
mpu6050_accel_cdev_enable(s, enable, t) == mpu6050_accel_set_enable(s, enable, t)

mpu6050_gyro_cdev_enable(s, enable, t) == mpu6050_gyro_set_enable(s, enable, t)

(***************************************************************************)
(* set_poll_delay.                                                         *)
(***************************************************************************)
(* the clamp of lines 810-811 left out *)
gyro_clamp_delay_no_max(delay) ==
    IF delay < MPU6050_GYRO_MIN_POLL_INTERVAL_MS
    THEN MPU6050_GYRO_MIN_POLL_INTERVAL_MS ELSE delay

gyro_clamp_delay(delay) ==
    LET d == IF delay < MPU6050_GYRO_MIN_POLL_INTERVAL_MS
             THEN MPU6050_GYRO_MIN_POLL_INTERVAL_MS ELSE delay
    IN IF d > MPU6050_GYRO_MAX_POLL_INTERVAL_MS
       THEN MPU6050_GYRO_MAX_POLL_INTERVAL_MS ELSE d

accel_clamp_delay(delay) ==
    LET d == IF delay < MPU6050_ACCEL_MIN_POLL_INTERVAL_MS
             THEN MPU6050_ACCEL_MIN_POLL_INTERVAL_MS ELSE delay
    IN IF d > MPU6050_ACCEL_MAX_POLL_INTERVAL_MS
       THEN MPU6050_ACCEL_MAX_POLL_INTERVAL_MS ELSE d

mpu6050_gyro_set_poll_delay(s, delay, t) ==
    LET d == gyro_clamp_delay(delay) IN
    IF s.gyro_poll_ms = d THEN [ret |-> 0, s |-> s, stored |-> FALSE]
    ELSE [ret |-> 0,
          s |-> [s EXCEPT !.gyro_delay_change = TRUE, !.gyro_poll_ms = d],
          stored |-> FALSE]

(* the values an int that was never assigned may hold *)
UninitInt == {-1, 0, 1}

(* the test of accel_en of line 1078 left out *)
mpu6050_accel_set_poll_delay_no_en_test(s, delay, t, junk) ==
    LET d == accel_clamp_delay(delay) IN
    IF s.accel_poll_ms = d THEN [ret |-> junk, s |-> s, stored |-> FALSE]
    ELSE LET s1 == [s EXCEPT !.accel_delay_change = TRUE, !.accel_poll_ms = d]
             c == hrtimer_try_to_cancel(s1.accel_timer)
         IN [ret |-> c.ret,
             s |-> [s1 EXCEPT !.accel_timer = hrtimer_start(s1.accel_poll_ms, t)],
             stored |-> FALSE]

(* ret is assigned only on the paths that reach line 1083 or 1088; junk is *)
(* what it holds on the others                                             *)
mpu6050_accel_set_poll_delay(s, delay, t, junk) ==
    LET d == accel_clamp_delay(delay) IN
    IF s.accel_poll_ms = d THEN [ret |-> junk, s |-> s, stored |-> FALSE]
    ELSE LET s1 == [s EXCEPT !.accel_delay_change = TRUE, !.accel_poll_ms = d] IN
         IF s1.accel_en = 0 THEN [ret |-> junk, s |-> s1, stored |-> FALSE]
         ELSE IF s1.use_poll
         THEN LET c == hrtimer_try_to_cancel(s1.accel_timer) IN
              [ret |-> c.ret,
               s |-> [s1 EXCEPT !.accel_timer =
                          hrtimer_start(s1.accel_poll_ms, t)],
               stored |-> FALSE]
         ELSE mpu6050_config_sample_rate(s1)

(***************************************************************************)
(* Placement: the two remap tables and the functions that apply them.      *)
(* struct axis_data is a record of six s16 fields; a remap function gets   *)
(* a pointer to it and overwrites three of them, so here it takes the      *)
(* record and returns the record the call leaves behind.                   *)
(***************************************************************************)
MPU6050_AXIS_REMAP_TAB_SZ == 8

(* the value an s16 holds after an int is stored into it *)
S16(x) == ((x + 32768) % 65536) - 32768

(* the value read from an `int f:w` bit-field that was initialised with v  *)
(* (the kernel's compiler makes plain int bit-fields signed)               *)
SBits(v, w) == ((v + 2 ^ (w - 1)) % (2 ^ w)) - 2 ^ (w - 1)

sensor_axis_remap(src_x, src_y, src_z, sign_x, sign_y, sign_z) ==
    [src_x |-> SBits(src_x, 3), src_y |-> SBits(src_y, 3),
     src_z |-> SBits(src_z, 3),
     sign_x |-> SBits(sign_x, 2), sign_y |-> SBits(sign_y, 2),
     sign_z |-> SBits(sign_z, 2)]

(* indexed by place, 0 .. MPU6050_AXIS_REMAP_TAB_SZ - 1 *)
mpu6050_accel_axis_remap_tab ==
    [place \in 0 .. (MPU6050_AXIS_REMAP_TAB_SZ - 1) |->
        CASE place = 0 -> sensor_axis_remap(0, 1, 2, 1, 1, 1)
          [] place = 1 -> sensor_axis_remap(1, 0, 2, 1, -1, 1)
          [] place = 2 -> sensor_axis_remap(0, 1, 2, -1, -1, 1)
          [] place = 3 -> sensor_axis_remap(1, 0, 2, -1, 1, 1)
          [] place = 4 -> sensor_axis_remap(0, 1, 2, -1, 1, -1)
          [] place = 5 -> sensor_axis_remap(1, 0, 2, -1, -1, -1)
          [] place = 6 -> sensor_axis_remap(0, 1, 2, 1, -1, -1)
          [] place = 7 -> sensor_axis_remap(1, 0, 2, 1, 1, -1)]

mpu6050_gyro_axis_remap_tab ==
    [place \in 0 .. (MPU6050_AXIS_REMAP_TAB_SZ - 1) |->
        CASE place = 0 -> sensor_axis_remap(0, 1, 2, -1, 1, -1)
          [] place = 1 -> sensor_axis_remap(1, 0, 2, -1, -1, -1)
          [] place = 2 -> sensor_axis_remap(0, 1, 2, 1, -1, -1)
          [] place = 3 -> sensor_axis_remap(1, 0, 2, 1, 1, -1)
          [] place = 4 -> sensor_axis_remap(0, 1, 2, 1, 1, 1)
          [] place = 5 -> sensor_axis_remap(1, 0, 2, 1, -1, 1)
          [] place = 6 -> sensor_axis_remap(0, 1, 2, -1, -1, 1)
          [] place = 7 -> sensor_axis_remap(1, 0, 2, -1, 1, 1)]

mpu6050_remap_accel_data(data, place) ==
    IF (place <= 0) \/ (place >= MPU6050_AXIS_REMAP_TAB_SZ) THEN data
    ELSE LET remap == mpu6050_accel_axis_remap_tab[place]
             tmp == [i \in 0 .. 2 |->
                        IF i = 0 THEN data.x ELSE IF i = 1 THEN data.y
                        ELSE data.z]
         IN [data EXCEPT !.x = S16(tmp[remap.src_x] * remap.sign_x),
                         !.y = S16(tmp[remap.src_y] * remap.sign_y),
                         !.z = S16(tmp[remap.src_z] * remap.sign_z)]

mpu6050_remap_gyro_data(data, place) ==
    IF (place <= 0) \/ (place >= MPU6050_AXIS_REMAP_TAB_SZ) THEN data
    ELSE LET remap == mpu6050_gyro_axis_remap_tab[place]
             tmp == [i \in 0 .. 2 |->
                        IF i = 0 THEN data.rx ELSE IF i = 1 THEN data.ry
                        ELSE data.rz]
         IN [data EXCEPT !.rx = S16(tmp[remap.src_x] * remap.sign_x),
                         !.ry = S16(tmp[remap.src_y] * remap.sign_y),
                         !.rz = S16(tmp[remap.src_z] * remap.sign_z)]

(***************************************************************************)
(* The sysfs axis writers (valueX, valueY, valueZ of each class device).   *)
(* The six store functions differ only in the field they assign, so one    *)
(* operator takes the field name.  buf is the text as a sequence of        *)
(* characters, a digit standing for itself and -1 for any other character. *)
(***************************************************************************)
RECURSIVE DecimalValue(_)
DecimalValue(digits) ==
    IF digits = <<>> THEN 0
    ELSE 10 * DecimalValue(SubSeq(digits, 1, Len(digits) - 1))
         + digits[Len(digits)]

kstrtoul(buf) ==
    IF buf = <<>> \/ (\E i \in 1 .. Len(buf) : buf[i] \notin 0 .. 9)
    THEN [ret |-> -EINVAL, res |-> 0]
    ELSE [ret |-> 0, res |-> DecimalValue(buf)]

(* ret is never assigned: junk is what it holds at the return *)
mpu6050_attr_set_axis(s, field, buf, junk) ==
    LET k == kstrtoul(buf) IN
    IF k.ret # 0 THEN [ret |-> -EINVAL, s |-> s]
    ELSE [ret |-> IF junk # 0 THEN -EBUSY ELSE Len(buf),
          s |-> [s EXCEPT !.axis[field] = S16(k.res)]]

(***************************************************************************)
(* Timer callbacks and poll threads.                                       *)
(***************************************************************************)
SNS_TYPE_GYRO == 0
SNS_TYPE_ACCEL == 1

mpu6050_manage_polling(sns_type, s, t) ==
    IF sns_type = SNS_TYPE_GYRO
    THEN IF s.gyro_en # 0
         THEN [ret |-> 0,
               s |-> [s EXCEPT !.gyro_timer = hrtimer_start(s.gyro_poll_ms, t)]]
         ELSE LET c == hrtimer_try_to_cancel(s.gyro_timer) IN
              [ret |-> c.ret, s |-> [s EXCEPT !.gyro_timer = c.timer]]
    ELSE IF sns_type = SNS_TYPE_ACCEL
    THEN IF s.accel_en # 0
         THEN [ret |-> 0,
               s |-> [s EXCEPT !.accel_timer = hrtimer_start(s.accel_poll_ms, t)]]
         ELSE LET c == hrtimer_try_to_cancel(s.accel_timer) IN
              [ret |-> c.ret, s |-> [s EXCEPT !.accel_timer = c.timer]]
    ELSE [ret |-> -EINVAL, s |-> s]

(* the expired timer is off the queue while its callback runs *)
gyro_timer_handle(s, t) ==
    mpu6050_manage_polling(SNS_TYPE_GYRO,
        [s EXCEPT !.gyro_timer = TimerIdle, !.gyro_wkp_flag = 1], t).s

accel_timer_handle(s, t) ==
    mpu6050_manage_polling(SNS_TYPE_ACCEL,
        [s EXCEPT !.accel_timer = TimerIdle, !.accel_wkp_flag = 1], t).s

(* mpu6050_manage_polling as the callback runs it, in two parts: the       *)
(* atomic_read of the channel's enable flag, then the branch on the value  *)
(* read, which reads the stored interval as it starts the timer            *)
manage_polling_read(sns_type, s) ==
    IF sns_type = SNS_TYPE_GYRO THEN s.gyro_en ELSE s.accel_en

(* the timer is started with the default interval, not the stored one *)
manage_polling_branch_default_interval(sns_type, s, en, t) ==
    IF sns_type = SNS_TYPE_GYRO
    THEN IF en # 0
         THEN [s EXCEPT !.gyro_timer =
                   hrtimer_start(MPU6050_GYRO_DEFAULT_POLL_INTERVAL_MS, t)]
         ELSE [s EXCEPT !.gyro_timer = hrtimer_try_to_cancel(@).timer]
    ELSE IF en # 0
         THEN [s EXCEPT !.accel_timer =
                   hrtimer_start(MPU6050_ACCEL_DEFAULT_POLL_INTERVAL_MS, t)]
         ELSE [s EXCEPT !.accel_timer = hrtimer_try_to_cancel(@).timer]

manage_polling_branch(sns_type, s, en, t) ==
    IF sns_type = SNS_TYPE_GYRO
    THEN IF en # 0
         THEN [s EXCEPT !.gyro_timer = hrtimer_start(s.gyro_poll_ms, t)]
         ELSE [s EXCEPT !.gyro_timer = hrtimer_try_to_cancel(@).timer]
    ELSE IF en # 0
         THEN [s EXCEPT !.accel_timer = hrtimer_start(s.accel_poll_ms, t)]
         ELSE [s EXCEPT !.accel_timer = hrtimer_try_to_cancel(@).timer]

(* the store of the wake flag that precedes mpu6050_manage_polling *)
timer_handle_wake(sns_type, s) ==
    IF sns_type = SNS_TYPE_GYRO THEN [s EXCEPT !.gyro_wkp_flag = 1]
    ELSE [s EXCEPT !.accel_wkp_flag = 1]

(* one turn of the loop: consume the wake, the delay-change section, the  *)
(* remap of sensor->axis in place, and the report to the input device.    *)
(* gyro_dev and accel_dev hold the values the input device was last given *)
gyro_poll_thread(s) ==
    LET data == mpu6050_remap_gyro_data(s.axis, s.pdata.place) IN
    [s EXCEPT !.gyro_wkp_flag = 0, !.gyro_delay_change = FALSE,
              !.axis = data,
              !.gyro_dev = [rx |-> data.rx, ry |-> data.ry, rz |-> data.rz]]

accel_poll_thread(s) ==
    LET data == mpu6050_remap_accel_data(s.axis, s.pdata.place) IN
    [s EXCEPT !.accel_wkp_flag = 0, !.accel_delay_change = FALSE,
              !.axis = data,
              !.accel_dev = [x |-> data.x, y |-> data.y, z |-> data.z]]

(* the poll loop in its parts: the wake is consumed; the section under     *)
(* op_lock; the remap and the report                                       *)
gyro_poll_wake(s) == [s EXCEPT !.gyro_wkp_flag = 0]

(* the section leaves the delay-change flag as it found it *)
gyro_poll_section_no_clear(s) == s

gyro_poll_section(s) == [s EXCEPT !.gyro_delay_change = FALSE]

gyro_poll_report(s) ==
    LET data == mpu6050_remap_gyro_data(s.axis, s.pdata.place) IN
    [s EXCEPT !.axis = data,
              !.gyro_dev = [rx |-> data.rx, ry |-> data.ry, rz |-> data.rz]]

accel_poll_wake(s) == [s EXCEPT !.accel_wkp_flag = 0]

accel_poll_section(s) == [s EXCEPT !.accel_delay_change = FALSE]

accel_poll_report(s) ==
    LET data == mpu6050_remap_accel_data(s.axis, s.pdata.place) IN
    [s EXCEPT !.axis = data,
              !.accel_dev = [x |-> data.x, y |-> data.y, z |-> data.z]]

(* The remap and report of one turn, with the copy into tmp[] (lines       *)
(* 353-355 / 372-374) taken earlier than the write-back: the channel's     *)
(* axes are rebuilt from tmp, the other fields are read as they are now.   *)
(* A place outside 1 .. 7 returns before the copy.                         *)
poll_report_from(sns_type, s, tmp) ==
    IF (s.pdata.place <= 0) \/ (s.pdata.place >= MPU6050_AXIS_REMAP_TAB_SZ)
    THEN IF sns_type = SNS_TYPE_GYRO THEN gyro_poll_report(s)
         ELSE accel_poll_report(s)
    ELSE IF sns_type = SNS_TYPE_GYRO
    THEN gyro_poll_report([s EXCEPT !.axis.rx = tmp[0], !.axis.ry = tmp[1],
                                    !.axis.rz = tmp[2]])
    ELSE accel_poll_report([s EXCEPT !.axis.x = tmp[0], !.axis.y = tmp[1],
                                     !.axis.z = tmp[2]])

(***************************************************************************)
(* The state probe leaves behind.                                          *)
(***************************************************************************)
mpu6050_init_config ==
    [is_asleep |-> FALSE, enable |-> 0, gyro_enable |-> 0, accel_enable |-> 0,
     lpf |-> MPU_DLPF_42HZ,
     rate_div |-> U8((ODR_DLPF_ENA \div INIT_FIFO_RATE) - 1)]

mpu6050_probe ==
    [power_enabled |-> FALSE,
     accel_en |-> 0, gyro_en |-> 0,
     use_poll |-> TRUE, batch_accel |-> FALSE, batch_gyro |-> FALSE,
     accel_poll_ms |-> MPU6050_ACCEL_DEFAULT_POLL_INTERVAL_MS,
     gyro_poll_ms |-> MPU6050_GYRO_DEFAULT_POLL_INTERVAL_MS,
     accel_delay_change |-> FALSE, gyro_delay_change |-> FALSE,
     accel_wkp_flag |-> 0, gyro_wkp_flag |-> 0,
     accel_timer |-> TimerIdle, gyro_timer |-> TimerIdle,
     axis |-> [x |-> 0, y |-> 0, z |-> 0, rx |-> 0, ry |-> 0, rz |-> 0],
     pdata |-> [place |-> 0],
     op_lock |-> "free",
     gyr_task |-> "running", accel_task |-> "running",
     accel_dev |-> [x |-> 0, y |-> 0, z |-> 0],
     gyro_dev |-> [rx |-> 0, ry |-> 0, rz |-> 0],
     resume_work |-> FALSE,
     acc_use_cal |-> FALSE, acc_cal_params |-> <<0, 0, 0>>,
     cfg |-> mpu6050_init_config]

(* kthread_stop: the thread is woken with kthread_should_stop() true; it   *)
(* clears its wake flag (line 449 / 489), leaves the loop and exits, and   *)
(* kthread_stop returns after that                                         *)
kthread_stop_gyr_task(s) ==
    [s EXCEPT !.gyro_wkp_flag = 0, !.gyr_task = "exited"]

kthread_stop_accel_task(s) ==
    [s EXCEPT !.accel_wkp_flag = 0, !.accel_task = "exited"]

(* The top of a poll loop (lines 446-452 / 486-492), entered when          *)
(* wait_event_interruptible returns: the wake flag is cleared, and the     *)
(* thread leaves the loop and exits when kthread_should_stop() holds.  A   *)
(* task is "running", "stopping" once kthread_stop has asked it to stop,   *)
(* or "exited".                                                            *)
poll_thread_wait(sns_type, s) ==
    IF sns_type = SNS_TYPE_GYRO
    THEN s.gyro_wkp_flag # 0 \/ s.gyr_task = "stopping"
    ELSE s.accel_wkp_flag # 0 \/ s.accel_task = "stopping"

(* the loop never tests kthread_should_stop() *)
poll_thread_top_no_stop(sns_type, s) ==
    IF sns_type = SNS_TYPE_GYRO THEN gyro_poll_wake(s) ELSE accel_poll_wake(s)

poll_thread_top(sns_type, s) ==
    IF sns_type = SNS_TYPE_GYRO
    THEN [gyro_poll_wake(s) EXCEPT
              !.gyr_task = IF @ = "stopping" THEN "exited" ELSE @]
    ELSE [accel_poll_wake(s) EXCEPT
              !.accel_task = IF @ = "stopping" THEN "exited" ELSE @]

(* the statements of mpu6050_remove from the first cancel on, in the order *)
(* of lines 1665-1669 (the error path of probe: 1634-1640); kthread_stop   *)
(* is the request to stop, with its wake-up, and then the wait for the     *)
(* thread to exit                                                          *)
remove_statements ==
    <<"cancel_gyro_timer", "cancel_accel_timer", "stop_gyr_task",
      "join_gyr_task", "stop_accel_task", "join_accel_task", "power_off">>

remove_statement(s, st) ==
    CASE st = "cancel_gyro_timer" ->
             [s EXCEPT !.gyro_timer = hrtimer_try_to_cancel(@).timer]
      [] st = "cancel_accel_timer" ->
             [s EXCEPT !.accel_timer = hrtimer_try_to_cancel(@).timer]
      [] st = "stop_gyr_task" ->
             [s EXCEPT !.gyr_task = IF @ = "running" THEN "stopping" ELSE @]
      [] st = "stop_accel_task" ->
             [s EXCEPT !.accel_task = IF @ = "running" THEN "stopping" ELSE @]
      [] st = "power_off" -> mpu6050_power_ctl(s, FALSE).s
      [] OTHER -> s

(* the cancels, the stops and the power-off of mpu6050_remove; the error   *)
(* path of mpu6050_probe runs the same statements from err_destroy_workqueue *)
mpu6050_remove(s) ==
    LET s1 == [s EXCEPT !.gyro_timer = hrtimer_try_to_cancel(s.gyro_timer).timer]
        s2 == [s1 EXCEPT !.accel_timer =
                   hrtimer_try_to_cancel(s1.accel_timer).timer]
    IN mpu6050_power_ctl(
           kthread_stop_accel_task(kthread_stop_gyr_task(s2)), FALSE).s

(* probe fails at the registration of the second class device: the chip    *)
(* is still powered (line 1464), nothing was enabled                       *)
mpu6050_probe_failed ==
    mpu6050_remove([mpu6050_probe EXCEPT !.power_enabled = TRUE])

(***************************************************************************)
(* The driver as a state machine.                                          *)
(*                                                                         *)
(* Three variables observe the run without being part of the driver:       *)
(* `written` holds, per axis, the value the sysfs axis writer stored last  *)
(* (zero from probe); `count` counts timer expiries and published samples  *)
(* where a specification counts them; `pc` is the position of each thread  *)
(* that is inside a call, for the specifications that split a call at its  *)
(* scheduling points.                                                      *)
(***************************************************************************)
Threads == {"gyro_cdev", "accel_cdev", "gyro_poll", "accel_poll",
            "gyro_timer", "accel_timer", "remove"}

Observers ==
    /\ written = sensor.axis
    /\ count = [gyro_expiries |-> 0, gyro_samples |-> 0,
                accel_expiries |-> 0, accel_samples |-> 0, stores |-> 0]
    /\ pc = [th \in Threads |-> [at |-> "idle", arg |-> 0]]

Delays == {5, 200, 6000}

Init ==
    /\ sensor = mpu6050_probe
    /\ now = 0
    /\ last = [op |-> "probe", arg |-> 0, ret |-> 0, stored |-> FALSE]
    /\ interval_ns = 0
    /\ Observers

GyroCdevEnable(enable) ==
    /\ LET r == mpu6050_gyro_cdev_enable(sensor, enable # 0, now) IN
       /\ sensor' = r.s
       /\ last' = [op |-> "gyro_enable", arg |-> enable, ret |-> r.ret,
                   stored |-> r.stored]
    /\ UNCHANGED <<now, interval_ns, written, count, pc>>

AccelCdevEnable(enable) ==
    /\ LET r == mpu6050_accel_cdev_enable(sensor, enable # 0, now) IN
       /\ sensor' = r.s
       /\ last' = [op |-> "accel_enable", arg |-> enable, ret |-> r.ret,
                   stored |-> r.stored]
    /\ UNCHANGED <<now, interval_ns, written, count, pc>>

GyroCdevPollDelay(delay) ==
    /\ LET r == mpu6050_gyro_set_poll_delay(sensor, delay, now) IN
       /\ sensor' = r.s
       /\ last' = [op |-> "gyro_poll_delay", arg |-> delay, ret |-> r.ret,
                   stored |-> r.stored]
    /\ UNCHANGED <<now, interval_ns, written, count, pc>>

AccelCdevPollDelay(delay, junk) ==
    /\ LET r == mpu6050_accel_set_poll_delay(sensor, delay, now, junk) IN
       /\ sensor' = r.s
       /\ last' = [op |-> "accel_poll_delay", arg |-> delay, ret |-> r.ret,
                   stored |-> r.stored]
    /\ UNCHANGED <<now, interval_ns, written, count, pc>>

GyroTimerHandle ==
    /\ sensor.gyro_timer.active
    /\ sensor.gyro_timer.expires <= now
    /\ sensor' = gyro_timer_handle(sensor, now)
    /\ UNCHANGED <<now, last, interval_ns, written, count, pc>>

AccelTimerHandle ==
    /\ sensor.accel_timer.active
    /\ sensor.accel_timer.expires <= now
    /\ sensor' = accel_timer_handle(sensor, now)
    /\ UNCHANGED <<now, last, interval_ns, written, count, pc>>

GyroPollThread ==
    /\ sensor.gyro_wkp_flag # 0
    /\ sensor' = gyro_poll_thread(sensor)
    /\ UNCHANGED <<now, last, interval_ns, written, count, pc>>

AccelPollThread ==
    /\ sensor.accel_wkp_flag # 0
    /\ sensor' = accel_poll_thread(sensor)
    /\ UNCHANGED <<now, last, interval_ns, written, count, pc>>

Min(S) == CHOOSE x \in S : \A y \in S : x <= y

(* time passes, up to the next expiry: an expired timer fires first *)
Tick ==
    /\ now < MaxTime
    /\ ~(sensor.gyro_timer.active /\ sensor.gyro_timer.expires <= now)
    /\ ~(sensor.accel_timer.active /\ sensor.accel_timer.expires <= now)
    /\ now' = Min({now + TickMs, MaxTime}
                  \cup (IF sensor.gyro_timer.active
                        THEN {sensor.gyro_timer.expires} ELSE {})
                  \cup (IF sensor.accel_timer.active
                        THEN {sensor.accel_timer.expires} ELSE {}))
    /\ UNCHANGED <<sensor, last, interval_ns, written, count, pc>>

Next ==
    \/ \E enable \in 0..1 : GyroCdevEnable(enable)
    \/ \E enable \in 0..1 : AccelCdevEnable(enable)
    \/ \E delay \in Delays : GyroCdevPollDelay(delay)
    \/ \E delay \in Delays, junk \in UninitInt : AccelCdevPollDelay(delay, junk)
    \/ GyroTimerHandle
    \/ AccelTimerHandle
    \/ GyroPollThread
    \/ AccelPollThread
    \/ Tick

Spec == Init /\ [][Next]_vars

(***************************************************************************)
(* The rate functions on their own: the intervals and the filter mode are  *)
(* drawn from bounded sets, then mpu6050_config_sample_rate and            *)
(* mpu6050_get_sample_interval are applied.                                *)
(***************************************************************************)
Pivots == {MPU6050_GYRO_MIN_POLL_INTERVAL_MS, DELAY_MS_MAX_NODLPF,
           MPU6050_GYRO_DEFAULT_POLL_INTERVAL_MS, DELAY_MS_MAX_DLPF,
           MPU6050_GYRO_MAX_POLL_INTERVAL_MS}

Intervals ==
    (UNION {(p - Span) .. (p + Span) : p \in Pivots})
        \cap (MPU6050_GYRO_MIN_POLL_INTERVAL_MS .. MPU6050_GYRO_MAX_POLL_INTERVAL_MS)

InitRate ==
    /\ \E a \in Intervals, g \in Intervals, lpf \in LpfModes :
           sensor = [mpu6050_probe EXCEPT !.accel_poll_ms = a,
                                          !.gyro_poll_ms = g,
                                          !.cfg.lpf = lpf]
    /\ now = 0
    /\ last = [op |-> "probe", arg |-> 0, ret |-> 0, stored |-> FALSE]
    /\ interval_ns = 0
    /\ Observers

RateConfig ==
    /\ last.op = "probe"
    /\ LET r == mpu6050_config_sample_rate(sensor) IN
       /\ sensor' = r.s
       /\ last' = [op |-> "config_sample_rate", arg |-> 0, ret |-> r.ret,
                   stored |-> r.stored]
    /\ UNCHANGED <<now, interval_ns, written, count, pc>>

RateInterval ==
    /\ last.op = "config_sample_rate"
    /\ interval_ns' = mpu6050_get_sample_interval(sensor)
    /\ last' = [op |-> "get_sample_interval", arg |-> 0, ret |-> 0,
                stored |-> FALSE]
    /\ UNCHANGED <<sensor, now, written, count, pc>>

NextRate == RateConfig \/ RateInterval

SpecRate == InitRate /\ [][NextRate]_vars

(***************************************************************************)
(* The remap functions on their own: a placement and raw axes drawn from   *)
(* bounded sets (the ends of the s16 range and the values round zero; the  *)
(* table indices and the integers next to them), then the two functions    *)
(* applied to sensor->axis as the poll threads apply them.                 *)
(***************************************************************************)
AxisVals == {-32768, 32767} \cup ((0 - AxisSpan) .. AxisSpan)

Places == (0 - PlaceSpan) .. (MPU6050_AXIS_REMAP_TAB_SZ - 1 + PlaceSpan)

InitRemap ==
    /\ \E place \in Places : \E x \in AxisVals, y \in AxisVals, z \in AxisVals :
           sensor = [mpu6050_probe EXCEPT
                         !.pdata.place = place,
                         !.axis = [x |-> x, y |-> y, z |-> z,
                                   rx |-> x, ry |-> y, rz |-> z]]
    /\ now = 0
    /\ last = [op |-> "probe", arg |-> 0, ret |-> 0, stored |-> FALSE]
    /\ interval_ns = 0
    /\ Observers

RemapAccel ==
    /\ sensor' = [sensor EXCEPT !.axis =
                      mpu6050_remap_accel_data(sensor.axis, sensor.pdata.place)]
    /\ last' = [op |-> "remap_accel_data", arg |-> sensor.pdata.place,
                ret |-> 0, stored |-> FALSE]
    /\ UNCHANGED <<now, interval_ns, written, count, pc>>

RemapGyro ==
    /\ sensor' = [sensor EXCEPT !.axis =
                      mpu6050_remap_gyro_data(sensor.axis, sensor.pdata.place)]
    /\ last' = [op |-> "remap_gyro_data", arg |-> sensor.pdata.place,
                ret |-> 0, stored |-> FALSE]
    /\ UNCHANGED <<now, interval_ns, written, count, pc>>

NextRemap == RemapAccel \/ RemapGyro

SpecRemap == InitRemap /\ [][NextRemap]_vars

(***************************************************************************)
(* Axis writers and poll threads together.  Both intervals were set to the *)
(* minimum before the run starts, so that the timers expire within         *)
(* MaxTime; the placement is whatever the platform data gave.  The axis    *)
(* writers run at any moment: they take no lock.                           *)
(***************************************************************************)
AxisFields == {"x", "y", "z", "rx", "ry", "rz"}

AxisBufs == {<<1>>, <<6, 5, 5, 3, 5>>, <<1, -1>>}

InitAxis ==
    /\ \E place \in Places :
           sensor = [mpu6050_accel_set_poll_delay(
                         mpu6050_gyro_set_poll_delay(
                             mpu6050_probe, MPU6050_GYRO_MIN_POLL_INTERVAL_MS, 0).s,
                         MPU6050_ACCEL_MIN_POLL_INTERVAL_MS, 0, 0).s
                     EXCEPT !.pdata.place = place]
    /\ now = 0
    /\ last = [op |-> "accel_poll_delay",
               arg |-> MPU6050_ACCEL_MIN_POLL_INTERVAL_MS,
               ret |-> 0, stored |-> FALSE]
    /\ interval_ns = 0
    /\ Observers

AxisStore(field, buf, junk) ==
    /\ count.stores < MaxStores
    /\ LET r == mpu6050_attr_set_axis(sensor, field, buf, junk) IN
       /\ sensor' = r.s
       /\ last' = [op |-> "axis_store", arg |-> Len(buf), ret |-> r.ret,
                   stored |-> FALSE]
       /\ written' = IF r.ret = -EINVAL THEN written
                     ELSE [written EXCEPT ![field] = r.s.axis[field]]
    /\ count' = [count EXCEPT !.stores = @ + 1]
    /\ UNCHANGED <<now, interval_ns, pc>>

NextAxis ==
    \/ \E field \in AxisFields, buf \in AxisBufs, junk \in UninitInt :
           AxisStore(field, buf, junk)
    \/ GyroCdevEnable(1)
    \/ AccelCdevEnable(1)
    \/ GyroTimerHandle
    \/ AccelTimerHandle
    \/ GyroPollThread
    \/ AccelPollThread
    \/ Tick

SpecAxis == InitAxis /\ [][NextAxis]_vars

(***************************************************************************)
(* The calls split at their scheduling points.  A caller thread per class  *)
(* device takes op_lock, runs the body and gives the lock back; an enable  *)
(* is split between hrtimer_start and atomic_set of the enable flag, a     *)
(* disable after atomic_set; a poll thread consumes the wake, takes the    *)
(* lock for the delay-change section, and reports after giving it back.    *)
(* The timer callbacks take no lock and run at any of these points.  Both  *)
(* intervals start at the minimum, as in InitAxis.  `last` is written at   *)
(* the step that fixes the call's return value.                            *)
(***************************************************************************)
DelaysRace == {5, 20}

InitRace == InitAxis /\ sensor.pdata.place = mpu6050_probe.pdata.place

GyroEnableLock(enable) ==
    /\ pc["gyro_cdev"].at = "idle"
    /\ sensor.op_lock = "free"
    /\ sensor' = mutex_lock(sensor, "gyro_cdev")
    /\ pc' = [pc EXCEPT !["gyro_cdev"] =
                 [at |-> IF enable # 0 THEN "enable_arm" ELSE "disable_flag",
                  arg |-> enable]]
    /\ UNCHANGED <<now, last, interval_ns, written, count>>

GyroEnableArm ==
    /\ pc["gyro_cdev"].at = "enable_arm"
    /\ LET r == mpu6050_gyro_set_enable_arm(sensor, now) IN
       /\ sensor' = IF r.exit THEN mutex_unlock(r.s) ELSE r.s
       /\ pc' = [pc EXCEPT !["gyro_cdev"] =
                    IF r.exit THEN [at |-> "idle", arg |-> 0]
                    ELSE [at |-> "enable_flag", arg |-> 1]]
       /\ last' = [op |-> "gyro_enable", arg |-> 1, ret |-> r.ret,
                   stored |-> r.stored]
    /\ UNCHANGED <<now, interval_ns, written, count>>

GyroEnableFlag ==
    /\ pc["gyro_cdev"].at = "enable_flag"
    /\ sensor' = mutex_unlock([sensor EXCEPT !.gyro_en = 1])
    /\ pc' = [pc EXCEPT !["gyro_cdev"] = [at |-> "idle", arg |-> 0]]
    /\ UNCHANGED <<now, last, interval_ns, written, count>>

GyroDisableFlag ==
    /\ pc["gyro_cdev"].at = "disable_flag"
    /\ sensor' = [sensor EXCEPT !.gyro_en = 0]
    /\ pc' = [pc EXCEPT !["gyro_cdev"] = [at |-> "disable_cancel", arg |-> 0]]
    /\ UNCHANGED <<now, last, interval_ns, written, count>>

(* gyro_en is 0 here, so the disable branch as a whole is its remainder *)
GyroDisableCancel ==
    /\ pc["gyro_cdev"].at = "disable_cancel"
    /\ LET r == mpu6050_gyro_set_enable(sensor, FALSE, now) IN
       /\ sensor' = mutex_unlock(r.s)
       /\ last' = [op |-> "gyro_enable", arg |-> 0, ret |-> r.ret,
                   stored |-> r.stored]
    /\ pc' = [pc EXCEPT !["gyro_cdev"] = [at |-> "idle", arg |-> 0]]
    /\ UNCHANGED <<now, interval_ns, written, count>>

GyroPollDelayLock(delay) ==
    /\ pc["gyro_cdev"].at = "idle"
    /\ sensor.op_lock = "free"
    /\ sensor' = mutex_lock(sensor, "gyro_cdev")
    /\ pc' = [pc EXCEPT !["gyro_cdev"] = [at |-> "poll_delay", arg |-> delay]]
    /\ UNCHANGED <<now, last, interval_ns, written, count>>

GyroPollDelayBody ==
    /\ pc["gyro_cdev"].at = "poll_delay"
    /\ LET r == mpu6050_gyro_set_poll_delay(sensor, pc["gyro_cdev"].arg, now) IN
       /\ sensor' = mutex_unlock(r.s)
       /\ last' = [op |-> "gyro_poll_delay", arg |-> pc["gyro_cdev"].arg,
                   ret |-> r.ret, stored |-> r.stored]
    /\ pc' = [pc EXCEPT !["gyro_cdev"] = [at |-> "idle", arg |-> 0]]
    /\ UNCHANGED <<now, interval_ns, written, count>>

GyroPollWake ==
    /\ pc["gyro_poll"].at = "idle"
    /\ sensor.gyro_wkp_flag # 0
    /\ sensor' = gyro_poll_wake(sensor)
    /\ pc' = [pc EXCEPT !["gyro_poll"] = [at |-> "lock", arg |-> 0]]
    /\ UNCHANGED <<now, last, interval_ns, written, count>>

GyroPollLock ==
    /\ pc["gyro_poll"].at = "lock"
    /\ sensor.op_lock = "free"
    /\ sensor' = mutex_lock(sensor, "gyro_poll")
    /\ pc' = [pc EXCEPT !["gyro_poll"] = [at |-> "section", arg |-> 0]]
    /\ UNCHANGED <<now, last, interval_ns, written, count>>

GyroPollSection ==
    /\ pc["gyro_poll"].at = "section"
    /\ sensor' = mutex_unlock(gyro_poll_section(sensor))
    /\ pc' = [pc EXCEPT !["gyro_poll"] = [at |-> "report", arg |-> 0]]
    /\ UNCHANGED <<now, last, interval_ns, written, count>>

GyroPollReport ==
    /\ pc["gyro_poll"].at = "report"
    /\ sensor' = gyro_poll_report(sensor)
    /\ pc' = [pc EXCEPT !["gyro_poll"] = [at |-> "idle", arg |-> 0]]
    /\ UNCHANGED <<now, last, interval_ns, written, count>>

AccelEnableLock(enable) ==
    /\ pc["accel_cdev"].at = "idle"
    /\ sensor.op_lock = "free"
    /\ sensor' = mutex_lock(sensor, "accel_cdev")
    /\ pc' = [pc EXCEPT !["accel_cdev"] =
                 [at |-> IF enable # 0 THEN "enable_arm" ELSE "disable_flag",
                  arg |-> enable]]
    /\ UNCHANGED <<now, last, interval_ns, written, count>>

AccelEnableArm ==
    /\ pc["accel_cdev"].at = "enable_arm"
    /\ LET r == mpu6050_accel_set_enable_arm(sensor, now) IN
       /\ sensor' = IF r.exit THEN mutex_unlock(r.s) ELSE r.s
       /\ pc' = [pc EXCEPT !["accel_cdev"] =
                    IF r.exit THEN [at |-> "idle", arg |-> 0]
                    ELSE [at |-> "enable_flag", arg |-> 1]]
       /\ last' = [op |-> "accel_enable", arg |-> 1, ret |-> r.ret,
                   stored |-> r.stored]
    /\ UNCHANGED <<now, interval_ns, written, count>>

AccelEnableFlag ==
    /\ pc["accel_cdev"].at = "enable_flag"
    /\ sensor' = mutex_unlock([sensor EXCEPT !.accel_en = 1])
    /\ pc' = [pc EXCEPT !["accel_cdev"] = [at |-> "idle", arg |-> 0]]
    /\ UNCHANGED <<now, last, interval_ns, written, count>>

AccelDisableFlag ==
    /\ pc["accel_cdev"].at = "disable_flag"
    /\ sensor' = [sensor EXCEPT !.accel_en = 0]
    /\ pc' = [pc EXCEPT !["accel_cdev"] = [at |-> "disable_cancel", arg |-> 0]]
    /\ UNCHANGED <<now, last, interval_ns, written, count>>

(* accel_en is 0 here, so the disable branch as a whole is its remainder *)
AccelDisableCancel ==
    /\ pc["accel_cdev"].at = "disable_cancel"
    /\ LET r == mpu6050_accel_set_enable(sensor, FALSE, now) IN
       /\ sensor' = mutex_unlock(r.s)
       /\ last' = [op |-> "accel_enable", arg |-> 0, ret |-> r.ret,
                   stored |-> r.stored]
    /\ pc' = [pc EXCEPT !["accel_cdev"] = [at |-> "idle", arg |-> 0]]
    /\ UNCHANGED <<now, interval_ns, written, count>>

AccelPollDelayLock(delay) ==
    /\ pc["accel_cdev"].at = "idle"
    /\ sensor.op_lock = "free"
    /\ sensor' = mutex_lock(sensor, "accel_cdev")
    /\ pc' = [pc EXCEPT !["accel_cdev"] = [at |-> "poll_delay", arg |-> delay]]
    /\ UNCHANGED <<now, last, interval_ns, written, count>>

AccelPollDelayBody(junk) ==
    /\ pc["accel_cdev"].at = "poll_delay"
    /\ LET r == mpu6050_accel_set_poll_delay(sensor, pc["accel_cdev"].arg, now,
                                             junk) IN
       /\ sensor' = mutex_unlock(r.s)
       /\ last' = [op |-> "accel_poll_delay", arg |-> pc["accel_cdev"].arg,
                   ret |-> r.ret, stored |-> r.stored]
    /\ pc' = [pc EXCEPT !["accel_cdev"] = [at |-> "idle", arg |-> 0]]
    /\ UNCHANGED <<now, interval_ns, written, count>>

AccelPollWake ==
    /\ pc["accel_poll"].at = "idle"
    /\ sensor.accel_wkp_flag # 0
    /\ sensor' = accel_poll_wake(sensor)
    /\ pc' = [pc EXCEPT !["accel_poll"] = [at |-> "lock", arg |-> 0]]
    /\ UNCHANGED <<now, last, interval_ns, written, count>>

AccelPollLock ==
    /\ pc["accel_poll"].at = "lock"
    /\ sensor.op_lock = "free"
    /\ sensor' = mutex_lock(sensor, "accel_poll")
    /\ pc' = [pc EXCEPT !["accel_poll"] = [at |-> "section", arg |-> 0]]
    /\ UNCHANGED <<now, last, interval_ns, written, count>>

AccelPollSection ==
    /\ pc["accel_poll"].at = "section"
    /\ sensor' = mutex_unlock(accel_poll_section(sensor))
    /\ pc' = [pc EXCEPT !["accel_poll"] = [at |-> "report", arg |-> 0]]
    /\ UNCHANGED <<now, last, interval_ns, written, count>>

AccelPollReport ==
    /\ pc["accel_poll"].at = "report"
    /\ sensor' = accel_poll_report(sensor)
    /\ pc' = [pc EXCEPT !["accel_poll"] = [at |-> "idle", arg |-> 0]]
    /\ UNCHANGED <<now, last, interval_ns, written, count>>

NextRace ==
    \/ \E enable \in {0, 1} : GyroEnableLock(enable)
    \/ GyroEnableArm
    \/ GyroEnableFlag
    \/ GyroDisableFlag
    \/ GyroDisableCancel
    \/ \E delay \in DelaysRace : GyroPollDelayLock(delay)
    \/ GyroPollDelayBody
    \/ GyroPollWake
    \/ GyroPollLock
    \/ GyroPollSection
    \/ GyroPollReport
    \/ GyroTimerHandle
    \/ \E enable \in {0, 1} : AccelEnableLock(enable)
    \/ AccelEnableArm
    \/ AccelEnableFlag
    \/ AccelDisableFlag
    \/ AccelDisableCancel
    \/ \E delay \in DelaysRace : AccelPollDelayLock(delay)
    \/ \E junk \in UninitInt : AccelPollDelayBody(junk)
    \/ AccelPollWake
    \/ AccelPollLock
    \/ AccelPollSection
    \/ AccelPollReport
    \/ AccelTimerHandle
    \/ Tick

SpecRace == InitRace /\ [][NextRace]_vars

(* The calls and the lock sections on their own, from the moment both     *)
(* channels, enabled at time 0, have had their first expiry: each poll     *)
(* thread has a wake to consume.  The clock stands still, so no timer      *)
(* fires again and the steps are those of SpecRace without the timers.     *)
DelaysLock == {20}

InitLock ==
    /\ LET fast == mpu6050_accel_set_poll_delay(
                       mpu6050_gyro_set_poll_delay(
                           mpu6050_probe, MPU6050_GYRO_MIN_POLL_INTERVAL_MS, 0).s,
                       MPU6050_ACCEL_MIN_POLL_INTERVAL_MS, 0, 0).s
           on == mpu6050_accel_set_enable(
                     mpu6050_gyro_set_enable(fast, TRUE, 0).s, TRUE, 0).s
           t == Min({on.gyro_timer.expires, on.accel_timer.expires})
       IN /\ sensor = accel_timer_handle(gyro_timer_handle(on, t), t)
          /\ now = t
    /\ last = [op |-> "accel_enable", arg |-> 1, ret |-> 0, stored |-> FALSE]
    /\ interval_ns = 0
    /\ Observers

NextLock ==
    \/ \E enable \in {0, 1} : GyroEnableLock(enable)
    \/ GyroEnableArm
    \/ GyroEnableFlag
    \/ GyroDisableFlag
    \/ GyroDisableCancel
    \/ \E delay \in DelaysLock : GyroPollDelayLock(delay)
    \/ GyroPollDelayBody
    \/ GyroPollWake
    \/ GyroPollLock
    \/ GyroPollSection
    \/ GyroPollReport
    \/ \E enable \in {0, 1} : AccelEnableLock(enable)
    \/ AccelEnableArm
    \/ AccelEnableFlag
    \/ AccelDisableFlag
    \/ AccelDisableCancel
    \/ \E delay \in DelaysLock : AccelPollDelayLock(delay)
    \/ \E junk \in UninitInt : AccelPollDelayBody(junk)
    \/ AccelPollWake
    \/ AccelPollLock
    \/ AccelPollSection
    \/ AccelPollReport

SpecLock == InitLock /\ [][NextLock]_vars

(* the next step of whichever thread holds op_lock *)
HolderStep ==
    \/ GyroEnableArm \/ GyroEnableFlag \/ GyroDisableFlag \/ GyroDisableCancel
    \/ GyroPollDelayBody \/ GyroPollSection
    \/ AccelEnableArm \/ AccelEnableFlag \/ AccelDisableFlag
    \/ AccelDisableCancel
    \/ (\E junk \in UninitInt : AccelPollDelayBody(junk))
    \/ AccelPollSection

(* A thread that holds op_lock is runnable (nothing between mutex_lock and *)
(* mutex_unlock waits for another thread), so the scheduler runs its next  *)
(* step sooner or later.  Nothing makes a caller start a call, a timer     *)
(* fire, or a waiter win the lock.                                         *)
FairLock == SpecLock /\ WF_vars(HolderStep)

(***************************************************************************)
(* Expiries and samples counted.  The timer callbacks and the poll threads *)
(* are those of Spec; each callback run adds one to the channel's expiry   *)
(* count and each turn of a poll thread one to its sample count.           *)
(***************************************************************************)
GyroTimerCounted ==
    /\ count.gyro_expiries < MaxEvents
    /\ sensor.gyro_timer.active
    /\ sensor.gyro_timer.expires <= now
    /\ sensor' = gyro_timer_handle(sensor, now)
    /\ count' = [count EXCEPT !.gyro_expiries = @ + 1]
    /\ UNCHANGED <<now, last, interval_ns, written, pc>>

AccelTimerCounted ==
    /\ count.accel_expiries < MaxEvents
    /\ sensor.accel_timer.active
    /\ sensor.accel_timer.expires <= now
    /\ sensor' = accel_timer_handle(sensor, now)
    /\ count' = [count EXCEPT !.accel_expiries = @ + 1]
    /\ UNCHANGED <<now, last, interval_ns, written, pc>>

GyroPollCounted ==
    /\ sensor.gyro_wkp_flag # 0
    /\ sensor' = gyro_poll_thread(sensor)
    /\ count' = [count EXCEPT !.gyro_samples = @ + 1]
    /\ UNCHANGED <<now, last, interval_ns, written, pc>>

AccelPollCounted ==
    /\ sensor.accel_wkp_flag # 0
    /\ sensor' = accel_poll_thread(sensor)
    /\ count' = [count EXCEPT !.accel_samples = @ + 1]
    /\ UNCHANGED <<now, last, interval_ns, written, pc>>

NextCount ==
    \/ \E enable \in {0, 1} : GyroCdevEnable(enable)
    \/ \E enable \in {0, 1} : AccelCdevEnable(enable)
    \/ GyroTimerCounted
    \/ AccelTimerCounted
    \/ GyroPollCounted
    \/ AccelPollCounted
    \/ Tick

SpecCount == InitRace /\ [][NextCount]_vars

(***************************************************************************)
(* The driver's whole life: probe succeeds or fails; while the device is   *)
(* bound the calls, timers and poll threads run as in Spec, except that a  *)
(* timer callback is split where the expired timer has left the queue and  *)
(* the callback has not run yet; mpu6050_remove ends it.  Nothing but a    *)
(* callback already on its way runs after the teardown.                    *)
(***************************************************************************)
Bound == last.op \notin {"remove", "probe_failed"}

InitLife ==
    /\ \/ /\ sensor = mpu6050_probe
          /\ last = [op |-> "probe", arg |-> 0, ret |-> 0, stored |-> FALSE]
       \/ /\ sensor = mpu6050_probe_failed
          /\ last = [op |-> "probe_failed", arg |-> 0, ret |-> -EINVAL,
                     stored |-> FALSE]
    /\ now = 0
    /\ interval_ns = 0
    /\ Observers

GyroTimerExpire ==
    /\ Bound
    /\ pc["gyro_timer"].at = "idle"
    /\ sensor.gyro_timer.active
    /\ sensor.gyro_timer.expires <= now
    /\ sensor' = [sensor EXCEPT !.gyro_timer = TimerIdle]
    /\ pc' = [pc EXCEPT !["gyro_timer"] = [at |-> "callback", arg |-> 0]]
    /\ UNCHANGED <<now, last, interval_ns, written, count>>

GyroTimerCallback ==
    /\ pc["gyro_timer"].at = "callback"
    /\ sensor' = gyro_timer_handle(sensor, now)
    /\ pc' = [pc EXCEPT !["gyro_timer"] = [at |-> "idle", arg |-> 0]]
    /\ UNCHANGED <<now, last, interval_ns, written, count>>

AccelTimerExpire ==
    /\ Bound
    /\ pc["accel_timer"].at = "idle"
    /\ sensor.accel_timer.active
    /\ sensor.accel_timer.expires <= now
    /\ sensor' = [sensor EXCEPT !.accel_timer = TimerIdle]
    /\ pc' = [pc EXCEPT !["accel_timer"] = [at |-> "callback", arg |-> 0]]
    /\ UNCHANGED <<now, last, interval_ns, written, count>>

AccelTimerCallback ==
    /\ pc["accel_timer"].at = "callback"
    /\ sensor' = accel_timer_handle(sensor, now)
    /\ pc' = [pc EXCEPT !["accel_timer"] = [at |-> "idle", arg |-> 0]]
    /\ UNCHANGED <<now, last, interval_ns, written, count>>

Remove ==
    /\ Bound
    /\ sensor' = mpu6050_remove(sensor)
    /\ last' = [op |-> "remove", arg |-> 0, ret |-> 0, stored |-> FALSE]
    /\ UNCHANGED <<now, interval_ns, written, count, pc>>

NextLife ==
    \/ Bound /\ \E enable \in {0, 1} : GyroCdevEnable(enable)
    \/ Bound /\ \E enable \in {0, 1} : AccelCdevEnable(enable)
    \/ Bound /\ \E delay \in Delays : GyroCdevPollDelay(delay)
    \/ Bound /\ \E delay \in Delays, junk \in UninitInt :
                    AccelCdevPollDelay(delay, junk)
    \/ GyroTimerExpire
    \/ GyroTimerCallback
    \/ AccelTimerExpire
    \/ AccelTimerCallback
    \/ Bound /\ GyroPollThread
    \/ Bound /\ AccelPollThread
    \/ Bound /\ Tick
    \/ Remove

SpecLife == InitLife /\ [][NextLife]_vars

(***************************************************************************)
(* The calls of Spec against timer callbacks that run in their parts: the  *)
(* expired timer leaves the queue and the callback is entered; it stores   *)
(* the wake flag and reads the enable flag; it starts or cancels the timer *)
(* on the value it read.  The callbacks take no lock, so a whole call can  *)
(* run between any two parts.  `last` records a finished callback with the *)
(* interval of its start (0 after a cancel).                               *)
(***************************************************************************)
TimerThread(sns_type) ==
    IF sns_type = SNS_TYPE_GYRO THEN "gyro_timer" ELSE "accel_timer"

(* a callback takes microseconds: the clock, in milliseconds, does not     *)
(* move while one is running                                               *)
CallbacksIdle ==
    pc["gyro_timer"].at = "idle" /\ pc["accel_timer"].at = "idle"

TimerRead(sns_type) ==
    /\ pc[TimerThread(sns_type)].at = "callback"
    /\ sensor' = timer_handle_wake(sns_type, sensor)
    /\ pc' = [pc EXCEPT ![TimerThread(sns_type)] =
                 [at |-> "rearm", arg |-> manage_polling_read(sns_type, sensor)]]
    /\ UNCHANGED <<now, last, interval_ns, written, count>>

TimerRearm(sns_type) ==
    /\ pc[TimerThread(sns_type)].at = "rearm"
    /\ sensor' = manage_polling_branch(sns_type, sensor,
                                       pc[TimerThread(sns_type)].arg, now)
    /\ pc' = [pc EXCEPT ![TimerThread(sns_type)] = [at |-> "idle", arg |-> 0]]
    /\ last' = [op |-> IF sns_type = SNS_TYPE_GYRO THEN "gyro_rearm"
                       ELSE "accel_rearm",
                arg |-> IF pc[TimerThread(sns_type)].arg = 0 THEN 0
                        ELSE IF sns_type = SNS_TYPE_GYRO
                             THEN sensor'.gyro_timer.expires - now
                             ELSE sensor'.accel_timer.expires - now,
                ret |-> 0, stored |-> FALSE]
    /\ UNCHANGED <<now, interval_ns, written, count>>

DelaysCallback == {5, 200}

NextCallback ==
    \/ \E enable \in 0 .. 1 : GyroCdevEnable(enable)
    \/ \E enable \in 0 .. 1 : AccelCdevEnable(enable)
    \/ \E delay \in DelaysCallback : GyroCdevPollDelay(delay)
    \/ \E delay \in DelaysCallback, junk \in UninitInt :
           AccelCdevPollDelay(delay, junk)
    \/ GyroTimerExpire
    \/ AccelTimerExpire
    \/ \E sns_type \in {SNS_TYPE_GYRO, SNS_TYPE_ACCEL} : TimerRead(sns_type)
    \/ \E sns_type \in {SNS_TYPE_GYRO, SNS_TYPE_ACCEL} : TimerRearm(sns_type)
    \/ GyroPollThread
    \/ AccelPollThread
    \/ CallbacksIdle /\ Tick

SpecCallback == Init /\ [][NextCallback]_vars

(***************************************************************************)
(* An enable with its sleeps as states of their own.  The caller holds     *)
(* op_lock from GyroEnableLock / AccelEnableLock on; with the chip off it  *)
(* sleeps in mpu6050_power_ctl before power_enabled is stored; switching   *)
(* the gyro engine on sleeps in mpu6050_switch_engine; the rest of the     *)
(* enable branch, the enable flag and the unlock follow as in SpecRace.    *)
(* pc.arg is 1 on entry and 2 once the engine sleep is behind.             *)
(***************************************************************************)
CdevThreads == {"gyro_cdev", "accel_cdev"}

PowerUpSleep(th) ==
    /\ pc[th].at = "enable_arm"
    /\ ~sensor.power_enabled
    /\ pc' = [pc EXCEPT ![th].at = "msleep_power_up"]
    /\ UNCHANGED <<sensor, now, last, interval_ns, written, count>>

PowerUpDone(th) ==
    /\ pc[th].at = "msleep_power_up"
    /\ sensor' = mpu6050_power_ctl(sensor, TRUE).s
    /\ pc' = [pc EXCEPT ![th].at = "enable_arm"]
    /\ UNCHANGED <<now, last, interval_ns, written, count>>

SensorUpSleep ==
    /\ pc["gyro_cdev"] = [at |-> "enable_arm", arg |-> 1]
    /\ sensor.power_enabled
    /\ ~sensor.cfg.is_asleep
    /\ pc' = [pc EXCEPT !["gyro_cdev"].at = "msleep_sensor_up"]
    /\ UNCHANGED <<sensor, now, last, interval_ns, written, count>>

SensorUpDone ==
    /\ pc["gyro_cdev"].at = "msleep_sensor_up"
    /\ pc' = [pc EXCEPT !["gyro_cdev"] = [at |-> "enable_arm", arg |-> 2]]
    /\ UNCHANGED <<sensor, now, last, interval_ns, written, count>>

NextSleep ==
    \/ \E enable \in {0, 1} : GyroEnableLock(enable)
    \/ \E th \in CdevThreads : PowerUpSleep(th)
    \/ \E th \in CdevThreads : PowerUpDone(th)
    \/ SensorUpSleep
    \/ SensorUpDone
    \/ pc["gyro_cdev"].arg = 2 /\ GyroEnableArm
    \/ GyroEnableFlag
    \/ GyroDisableFlag
    \/ GyroDisableCancel
    \/ \E enable \in {0, 1} : AccelEnableLock(enable)
    \/ sensor.power_enabled /\ AccelEnableArm
    \/ AccelEnableFlag
    \/ AccelDisableFlag
    \/ AccelDisableCancel
    \/ GyroTimerHandle
    \/ AccelTimerHandle
    \/ GyroPollThread
    \/ AccelPollThread
    \/ Tick

SpecSleep == InitRace /\ [][NextSleep]_vars

(***************************************************************************)
(* The teardown statement by statement, against poll threads that run in   *)
(* their parts and timers that fire.  Both channels are enabled, at the    *)
(* minimum interval, when it begins; the class devices are unregistered    *)
(* first, so no call runs alongside.  pc["remove"].arg counts the          *)
(* statements of remove_statements that have run; `count` counts the       *)
(* samples given to the input devices; pc of an exited poll thread keeps   *)
(* the wake flag it cleared on its way out.                                *)
(***************************************************************************)
InitStop ==
    /\ LET fast == mpu6050_accel_set_poll_delay(
                       mpu6050_gyro_set_poll_delay(
                           mpu6050_probe, MPU6050_GYRO_MIN_POLL_INTERVAL_MS, 0).s,
                       MPU6050_ACCEL_MIN_POLL_INTERVAL_MS, 0, 0).s
       IN sensor = mpu6050_accel_set_enable(
                       mpu6050_gyro_set_enable(fast, TRUE, 0).s, TRUE, 0).s
    /\ now = 0
    /\ last = [op |-> "accel_enable", arg |-> 1, ret |-> 0, stored |-> FALSE]
    /\ interval_ns = 0
    /\ Observers

PollThread(sns_type) == IF sns_type = SNS_TYPE_GYRO THEN "gyro_poll" ELSE "accel_poll"

PollTop(sns_type) ==
    /\ pc[PollThread(sns_type)].at = "idle"
    /\ poll_thread_wait(sns_type, sensor)
    /\ sensor' = poll_thread_top(sns_type, sensor)
    /\ pc' = [pc EXCEPT ![PollThread(sns_type)] =
                 IF (sns_type = SNS_TYPE_GYRO /\ sensor'.gyr_task = "exited")
                    \/ (sns_type = SNS_TYPE_ACCEL /\ sensor'.accel_task = "exited")
                 THEN [at |-> "exited",
                       arg |-> IF sns_type = SNS_TYPE_GYRO
                               THEN sensor.gyro_wkp_flag
                               ELSE sensor.accel_wkp_flag]
                 ELSE [at |-> "lock", arg |-> 0]]
    /\ UNCHANGED <<now, last, interval_ns, written, count>>

PollReportCounted(sns_type) ==
    /\ pc[PollThread(sns_type)].at = "report"
    /\ (IF sns_type = SNS_TYPE_GYRO THEN count.gyro_samples
        ELSE count.accel_samples) <= MaxEvents
    /\ sensor' = IF sns_type = SNS_TYPE_GYRO THEN gyro_poll_report(sensor)
                 ELSE accel_poll_report(sensor)
    /\ count' = IF sns_type = SNS_TYPE_GYRO
                THEN [count EXCEPT !.gyro_samples = @ + 1]
                ELSE [count EXCEPT !.accel_samples = @ + 1]
    /\ pc' = [pc EXCEPT ![PollThread(sns_type)] = [at |-> "idle", arg |-> 0]]
    /\ UNCHANGED <<now, last, interval_ns, written>>

RemoveStep ==
    /\ pc["remove"].arg < Len(remove_statements)
    /\ LET st == remove_statements[pc["remove"].arg + 1] IN
       /\ st = "join_gyr_task" => sensor.gyr_task = "exited"
       /\ st = "join_accel_task" => sensor.accel_task = "exited"
       /\ sensor' = remove_statement(sensor, st)
       /\ pc' = [pc EXCEPT !["remove"] =
                    [at |-> st, arg |-> pc["remove"].arg + 1]]
       /\ last' = IF pc["remove"].arg + 1 = Len(remove_statements)
                  THEN [op |-> "remove", arg |-> 0, ret |-> 0,
                        stored |-> FALSE]
                  ELSE last
    /\ UNCHANGED <<now, interval_ns, written, count>>

PollStep(sns_type) ==
    \/ PollTop(sns_type)
    \/ sns_type = SNS_TYPE_GYRO
          /\ (GyroPollLock \/ GyroPollSection)
    \/ sns_type = SNS_TYPE_ACCEL
          /\ (AccelPollLock \/ AccelPollSection)
    \/ PollReportCounted(sns_type)

NextStop ==
    \/ GyroTimerHandle
    \/ AccelTimerHandle
    \/ \E sns_type \in {SNS_TYPE_GYRO, SNS_TYPE_ACCEL} : PollTop(sns_type)
    \/ GyroPollLock
    \/ GyroPollSection
    \/ AccelPollLock
    \/ AccelPollSection
    \/ \E sns_type \in {SNS_TYPE_GYRO, SNS_TYPE_ACCEL} :
           PollReportCounted(sns_type)
    \/ RemoveStep
    \/ Tick

SpecStop == InitStop /\ [][NextStop]_vars

(* A poll thread that can take its next step is runnable, and the          *)
(* scheduler runs a runnable thread sooner or later.  Nothing makes the    *)
(* teardown start or a timer fire.                                         *)
FairStop ==
    SpecStop /\ WF_vars(PollStep(SNS_TYPE_GYRO))
             /\ WF_vars(PollStep(SNS_TYPE_ACCEL))

(***************************************************************************)
(* The axis writer against poll threads whose remap runs in two parts: the *)
(* copy of the channel's axes into tmp[], kept in pc.arg, and the          *)
(* write-back with the report.  The poll threads take op_lock for their    *)
(* section only; the writer takes no lock, so it runs at any point.        *)
(***************************************************************************)
PollRemapRead(sns_type) ==
    /\ pc[PollThread(sns_type)].at = "report"
    /\ pc' = [pc EXCEPT ![PollThread(sns_type)] =
                 [at |-> "write_back",
                  arg |-> IF sns_type = SNS_TYPE_GYRO
                          THEN [i \in 0 .. 2 |->
                                   IF i = 0 THEN sensor.axis.rx
                                   ELSE IF i = 1 THEN sensor.axis.ry
                                   ELSE sensor.axis.rz]
                          ELSE [i \in 0 .. 2 |->
                                   IF i = 0 THEN sensor.axis.x
                                   ELSE IF i = 1 THEN sensor.axis.y
                                   ELSE sensor.axis.z]]]
    /\ UNCHANGED <<sensor, now, last, interval_ns, written, count>>

PollRemapWrite(sns_type) ==
    /\ pc[PollThread(sns_type)].at = "write_back"
    /\ sensor' = poll_report_from(sns_type, sensor,
                                  pc[PollThread(sns_type)].arg)
    /\ pc' = [pc EXCEPT ![PollThread(sns_type)] = [at |-> "idle", arg |-> 0]]
    /\ UNCHANGED <<now, last, interval_ns, written, count>>

NextAxisRace ==
    \/ \E field \in AxisFields, buf \in AxisBufs, junk \in UninitInt :
           AxisStore(field, buf, junk)
    \/ GyroCdevEnable(1)
    \/ AccelCdevEnable(1)
    \/ GyroTimerHandle
    \/ AccelTimerHandle
    \/ \E sns_type \in {SNS_TYPE_GYRO, SNS_TYPE_ACCEL} : PollTop(sns_type)
    \/ GyroPollLock
    \/ GyroPollSection
    \/ AccelPollLock
    \/ AccelPollSection
    \/ \E sns_type \in {SNS_TYPE_GYRO, SNS_TYPE_ACCEL} : PollRemapRead(sns_type)
    \/ \E sns_type \in {SNS_TYPE_GYRO, SNS_TYPE_ACCEL} : PollRemapWrite(sns_type)
    \/ Tick

SpecAxisRace == InitAxis /\ [][NextAxisRace]_vars

(***************************************************************************)
(* Reference definitions used by the properties.                           *)
(***************************************************************************)
Lesser(a, b) == IF a <= b THEN a ELSE b

Greater(a, b) == IF a >= b THEN a ELSE b

Clamp(x, lo, hi) == Greater(lo, Lesser(hi, x))

NoLpf(lpf) == lpf \in {MPU_DLPF_256HZ_NOLPF2, MPU_DLPF_RESERVED}

(* the Rate Negotiator as the specification words it *)
Negotiate(accel_ms, gyro_ms, lpf) ==
    IF NoLpf(lpf)
    THEN (ODR_DLPF_DIS
            * Clamp(Lesser(accel_ms, gyro_ms), DELAY_MS_MIN_NODLPF, DELAY_MS_MAX_NODLPF))
         \div MSEC_PER_SEC - 1
    ELSE (ODR_DLPF_ENA
            * Clamp(Lesser(accel_ms, gyro_ms), DELAY_MS_MIN_DLPF, DELAY_MS_MAX_DLPF))
         \div MSEC_PER_SEC - 1

AnyEnabled(s) == s.accel_en # 0 \/ s.gyro_en # 0

Armed(ms, t) == [active |-> TRUE, expires |-> t + ms]

(***************************************************************************)
(* Properties.                                                             *)
(***************************************************************************)

(* C1: after every enable, disable and set_poll_delay call has returned,   *)
(* power_enabled is true exactly when accel_en or gyro_en is set.          *)
C1_PowerIffEnabled == sensor.power_enabled <=> AnyEnabled(sensor)

(* C1 witness: the gyroscope was disabled while the accelerometer stayed   *)
(* enabled, and power is still on.                                         *)
C1_Witness ==
    /\ last.op = "gyro_enable" /\ last.arg = 0 /\ last.ret = 0
    /\ sensor.gyro_en = 0 /\ sensor.accel_en = 1
    /\ sensor.power_enabled

(* No enable or disable call ever returns an error: cfg.is_asleep is never *)
(* set and power_ctl, restore_context and switch_engine always return 0.   *)
(* The error exits that C2 speaks of are therefore never taken.            *)
EnableNeverFails ==
    last.op \in {"gyro_enable", "accel_enable"} => last.ret = 0

(* C3 (as claimed): enable() of a channel that is already enabled is       *)
(* rejected with an error or leaves the channel's timer, with its pending  *)
(* expiry, as it was.                                                      *)
C3_ReenableKeepsTimer ==
    [][ /\ (sensor.gyro_en # 0 /\ GyroCdevEnable(1))
            => (last'.ret # 0 \/ sensor'.gyro_timer = sensor.gyro_timer)
        /\ (sensor.accel_en # 0 /\ AccelCdevEnable(1))
            => (last'.ret # 0 \/ sensor'.accel_timer = sensor.accel_timer)
      ]_vars

(* C4 (as claimed): when set_poll_delay changes the interval of an enabled *)
(* channel in polling mode, the channel's timer is, on return, armed with  *)
(* the new clamped interval counted from the call, for both channels.      *)
C4_PollDelayRearms ==
    [][ \A d \in Delays :
        /\ ( /\ sensor.gyro_en # 0 /\ sensor.use_poll
             /\ Clamp(d, MPU6050_GYRO_MIN_POLL_INTERVAL_MS,
                         MPU6050_GYRO_MAX_POLL_INTERVAL_MS) # sensor.gyro_poll_ms
             /\ GyroCdevPollDelay(d) )
            => sensor'.gyro_timer =
                   Armed(Clamp(d, MPU6050_GYRO_MIN_POLL_INTERVAL_MS,
                                  MPU6050_GYRO_MAX_POLL_INTERVAL_MS), now)
        /\ ( /\ sensor.accel_en # 0 /\ sensor.use_poll
             /\ Clamp(d, MPU6050_ACCEL_MIN_POLL_INTERVAL_MS,
                         MPU6050_ACCEL_MAX_POLL_INTERVAL_MS) # sensor.accel_poll_ms
             /\ \E junk \in UninitInt : AccelCdevPollDelay(d, junk) )
            => sensor'.accel_timer =
                   Armed(Clamp(d, MPU6050_ACCEL_MIN_POLL_INTERVAL_MS,
                                  MPU6050_ACCEL_MAX_POLL_INTERVAL_MS), now)
      ]_vars

(* C5 (as claimed): whenever a channel is enabled, cfg.rate_div is the     *)
(* divisor negotiated from the current intervals and filter mode.          *)
C5_DivisorTracksIntervals ==
    AnyEnabled(sensor)
        => sensor.cfg.rate_div =
               Negotiate(sensor.accel_poll_ms, sensor.gyro_poll_ms, sensor.cfg.lpf)

(* C5 (amended): on return from every enable() call cfg.rate_div is the    *)
(* divisor negotiated from the current intervals and filter mode; it is    *)
(* enable(), not set_poll_delay, that renegotiates in polling mode.        *)
C5_DivisorAfterEnable ==
    (last.op \in {"gyro_enable", "accel_enable"} /\ last.arg = 1)
        => /\ last.ret = 0
           /\ sensor.cfg.rate_div =
                  Negotiate(sensor.accel_poll_ms, sensor.gyro_poll_ms,
                            sensor.cfg.lpf)

(* C5 witness: the accelerometer was enabled after the gyroscope interval  *)
(* had been set to its minimum, and the divisor is the one for 10 ms.      *)
C5_Witness ==
    /\ last.op = "accel_enable" /\ last.arg = 1
    /\ sensor.gyro_poll_ms = MPU6050_GYRO_MIN_POLL_INTERVAL_MS
    /\ sensor.accel_poll_ms = MPU6050_ACCEL_DEFAULT_POLL_INTERVAL_MS
    /\ sensor.cfg.rate_div = MPU6050_GYRO_MIN_POLL_INTERVAL_MS - 1

(* C6: accel_poll_ms and gyro_poll_ms are always within [10, 5000], and    *)
(* set_poll_delay stores max(10, min(5000, requested)).                    *)
C6_IntervalsInRange ==
    /\ sensor.accel_poll_ms \in 10 .. 5000
    /\ sensor.gyro_poll_ms \in 10 .. 5000
    /\ last.op = "gyro_poll_delay"
           => sensor.gyro_poll_ms = Greater(10, Lesser(5000, last.arg))
    /\ last.op = "accel_poll_delay"
           => sensor.accel_poll_ms = Greater(10, Lesser(5000, last.arg))

(* C6 witness: a request above the maximum was stored as 5000 while the    *)
(* other channel holds a request below the minimum stored as 10.           *)
C6_Witness ==
    /\ last.op = "gyro_poll_delay" /\ last.arg > 5000
    /\ sensor.gyro_poll_ms = 5000
    /\ sensor.accel_poll_ms = 10

(* C7: set_poll_delay on a disabled channel changes only that channel's    *)
(* stored interval and delay-change flag (no timer, power, enable flag or  *)
(* divisor); the next enable() of the channel arms its timer with the      *)
(* stored interval and negotiates the divisor from it.                     *)
C7_LazyInterval ==
    [][ /\ \A d \in Delays :
           /\ (sensor.gyro_en = 0 /\ GyroCdevPollDelay(d))
               => /\ sensor' = [sensor EXCEPT
                                  !.gyro_poll_ms = sensor'.gyro_poll_ms,
                                  !.gyro_delay_change = sensor'.gyro_delay_change]
                  /\ sensor'.gyro_poll_ms = Clamp(d, 10, 5000)
           /\ (sensor.accel_en = 0
                 /\ \E junk \in UninitInt : AccelCdevPollDelay(d, junk))
               => /\ sensor' = [sensor EXCEPT
                                  !.accel_poll_ms = sensor'.accel_poll_ms,
                                  !.accel_delay_change = sensor'.accel_delay_change]
                  /\ sensor'.accel_poll_ms = Clamp(d, 10, 5000)
        /\ (sensor.gyro_en = 0 /\ GyroCdevEnable(1))
            => /\ sensor'.gyro_timer = Armed(sensor.gyro_poll_ms, now)
               /\ sensor'.cfg.rate_div =
                      Negotiate(sensor.accel_poll_ms, sensor.gyro_poll_ms,
                                sensor.cfg.lpf)
        /\ (sensor.accel_en = 0 /\ AccelCdevEnable(1))
            => /\ sensor'.accel_timer = Armed(sensor.accel_poll_ms, now)
               /\ sensor'.cfg.rate_div =
                      Negotiate(sensor.accel_poll_ms, sensor.gyro_poll_ms,
                                sensor.cfg.lpf)
      ]_vars

(* C7 witness: the accelerometer interval was changed while both channels  *)
(* were disabled; the interval and the flag are stored, nothing is armed   *)
(* or powered, and the divisor is still the one probe wrote.               *)
C7_Witness ==
    /\ last.op = "accel_poll_delay" /\ last.arg = 5
    /\ sensor.accel_en = 0 /\ sensor.gyro_en = 0
    /\ sensor.accel_poll_ms = 10 /\ sensor.accel_delay_change
    /\ ~sensor.accel_timer.active /\ ~sensor.power_enabled
    /\ sensor.cfg.rate_div = mpu6050_init_config.rate_div

RateDivWith(accel_ms, gyro_ms) ==
    mpu6050_config_sample_rate(
        [sensor EXCEPT !.accel_poll_ms = accel_ms, !.gyro_poll_ms = gyro_ms]
    ).s.cfg.rate_div

(* C8: for every pair of intervals in [10, 5000] and every filter mode,    *)
(* mpu6050_config_sample_rate succeeds and stores the divisor computed     *)
(* from the smaller interval, clamped to the range of the mode:            *)
(* ODR * delay / 1000 - 1, never the value of the slower channel.          *)
C8_DivisorMatchesReference ==
    last.op = "config_sample_rate"
        => /\ last.ret = 0
           /\ sensor.cfg.rate_div =
                  Negotiate(sensor.accel_poll_ms, sensor.gyro_poll_ms,
                            sensor.cfg.lpf)

(* C8 witness: with the filter off, accel at 10 ms and gyro at 12 ms the   *)
(* stored divisor is 8 * 10 - 1, the one of the faster channel.            *)
C8_Witness ==
    /\ last.op = "config_sample_rate"
    /\ sensor.cfg.lpf = MPU_DLPF_256HZ_NOLPF2
    /\ sensor.accel_poll_ms = 10 /\ sensor.gyro_poll_ms = 12
    /\ sensor.cfg.rate_div = 79
    /\ sensor.cfg.rate_div # Negotiate(12, 12, sensor.cfg.lpf)

(* C9: for a fixed filter mode, raising accel_poll_ms or gyro_poll_ms      *)
(* never yields a smaller 8-bit divisor, nor a smaller sample interval.    *)
C9_DivisorMonotonic ==
    last.op = "config_sample_rate"
        => \A x \in Intervals :
             /\ x >= sensor.accel_poll_ms
                  => /\ RateDivWith(x, sensor.gyro_poll_ms) >= sensor.cfg.rate_div
                     /\ mpu6050_get_sample_interval(
                            [sensor EXCEPT !.cfg.rate_div =
                                RateDivWith(x, sensor.gyro_poll_ms)])
                          >= mpu6050_get_sample_interval(sensor)
             /\ x >= sensor.gyro_poll_ms
                  => /\ RateDivWith(sensor.accel_poll_ms, x) >= sensor.cfg.rate_div
                     /\ mpu6050_get_sample_interval(
                            [sensor EXCEPT !.cfg.rate_div =
                                RateDivWith(sensor.accel_poll_ms, x)])
                          >= mpu6050_get_sample_interval(sensor)

(* C9 witness: with the filter on and both intervals at its 256 ms limit   *)
(* the divisor is 255, and a longer interval keeps it at 255.              *)
C9_Witness ==
    /\ last.op = "config_sample_rate"
    /\ sensor.cfg.lpf = MPU_DLPF_42HZ
    /\ sensor.accel_poll_ms = DELAY_MS_MAX_DLPF
    /\ sensor.gyro_poll_ms = DELAY_MS_MAX_DLPF
    /\ sensor.cfg.rate_div = 255
    /\ RateDivWith(DELAY_MS_MAX_DLPF + 1, DELAY_MS_MAX_DLPF + 1) = 255
    /\ RateDivWith(DELAY_MS_MAX_DLPF - 1, DELAY_MS_MAX_DLPF - 1) = 254

(* one step of the divisor with the filter off, in nanoseconds *)
DivisorStepNs == NSEC_PER_MSEC \div (ODR_DLPF_DIS \div ODR_DLPF_ENA)

C11_NegotiationIdempotent ==
    [][ /\ (GyroCdevEnable(1) \/ AccelCdevEnable(1))
            => /\ last'.stored =
                      (sensor.cfg.rate_div #
                           Negotiate(sensor.accel_poll_ms, sensor.gyro_poll_ms,
                                     sensor.cfg.lpf))
               /\ ~last'.stored => sensor'.cfg.rate_div = sensor.cfg.rate_div
               /\ mpu6050_config_sample_rate(sensor') =
                      [ret |-> 0, s |-> sensor', stored |-> FALSE]
        /\ (last.op = "probe" /\ GyroCdevEnable(1))
            => /\ last'.stored
               /\ sensor'.cfg.rate_div # sensor.cfg.rate_div
        /\ ( /\ last.op = "gyro_enable" /\ last.arg = 1 /\ last.stored
             /\ sensor.accel_poll_ms = sensor.gyro_poll_ms
             /\ AccelCdevEnable(1) )
            => /\ ~last'.stored
               /\ sensor'.cfg.rate_div = sensor.cfg.rate_div
      ]_vars

(* C11 witness: straight after probe the gyroscope was enabled, which      *)
(* stored the divisor, and then the accelerometer, which did not.          *)
C11_Witness ==
    /\ last.op = "accel_enable" /\ last.arg = 1 /\ ~last.stored
    /\ sensor.gyro_en = 1 /\ sensor.accel_en = 1
    /\ sensor.accel_poll_ms = MPU6050_ACCEL_DEFAULT_POLL_INTERVAL_MS
    /\ sensor.gyro_poll_ms = MPU6050_GYRO_DEFAULT_POLL_INTERVAL_MS
    /\ sensor.cfg.rate_div = 199
    /\ sensor.cfg.rate_div # mpu6050_init_config.rate_div

(* the three axes of a channel as a function on 0 .. 2 *)
AccelAxes(data) ==
    [i \in 0 .. 2 |-> IF i = 0 THEN data.x ELSE IF i = 1 THEN data.y ELSE data.z]

GyroAxes(data) ==
    [i \in 0 .. 2 |-> IF i = 0 THEN data.rx ELSE IF i = 1 THEN data.ry ELSE data.rz]

OneNonzero(v) == Cardinality({i \in 0 .. 2 : v[i] # 0}) = 1

(* what row `row` of a table asks for: output axis i is the source axis   *)
(* the row names, multiplied by the sign the row names                    *)
RowApplied(row, in) ==
    [i \in 0 .. 2 |->
        IF i = 0 THEN in[row.src_x] * row.sign_x
        ELSE IF i = 1 THEN in[row.src_y] * row.sign_y
        ELSE in[row.src_z] * row.sign_z]

(* C12: for each channel, each placement 1..7 and each input with exactly  *)
(* one nonzero axis, the remap leaves exactly one nonzero axis, at the     *)
(* position and with the sign row p of the channel's table gives; for      *)
(* placement 0 and every placement outside 0..7 the axes are unchanged.    *)
C12_RemapFollowsTable ==
    [][ /\ RemapAccel =>
            LET place == sensor.pdata.place
                in == AccelAxes(sensor.axis)
                out == AccelAxes(sensor'.axis)
            IN /\ (place \in 1 .. 7 /\ OneNonzero(in))
                      => /\ OneNonzero(out)
                         /\ out = RowApplied(mpu6050_accel_axis_remap_tab[place], in)
               /\ (place \notin 1 .. 7) => sensor'.axis = sensor.axis
        /\ RemapGyro =>
            LET place == sensor.pdata.place
                in == GyroAxes(sensor.axis)
                out == GyroAxes(sensor'.axis)
            IN /\ (place \in 1 .. 7 /\ OneNonzero(in))
                      => /\ OneNonzero(out)
                         /\ out = RowApplied(mpu6050_gyro_axis_remap_tab[place], in)
               /\ (place \notin 1 .. 7) => sensor'.axis = sensor.axis
      ]_vars

(* C13: every sample a poll thread publishes is the placement transform,   *)
(* applied once, of the raw axes the axis writer stored last (so that two  *)
(* samples of a channel with no store between them are the same sample).   *)
C13_SampleIsTransformOfWritten ==
    [][ /\ GyroPollThread =>
            LET data == mpu6050_remap_gyro_data(written, sensor.pdata.place)
            IN sensor'.gyro_dev =
                   [rx |-> data.rx, ry |-> data.ry, rz |-> data.rz]
        /\ AccelPollThread =>
            LET data == mpu6050_remap_accel_data(written, sensor.pdata.place)
            IN sensor'.accel_dev = [x |-> data.x, y |-> data.y, z |-> data.z]
      ]_vars

(* C14: a poll thread's wake-and-publish step leaves sensor->axis as it    *)
(* was; the stored axes change only in a step of the axis writer.          *)
C14_PublishLeavesAxes ==
    [][ /\ (GyroPollThread \/ AccelPollThread) => sensor'.axis = sensor.axis
        /\ sensor'.axis # sensor.axis =>
               \E field \in AxisFields, buf \in AxisBufs, junk \in UninitInt :
                   AxisStore(field, buf, junk)
      ]_vars

(* the parts into which SpecRace splits a call make up the call: checked  *)
(* in every state of Spec                                                  *)
SplitAgrees ==
    /\ LET a == mpu6050_gyro_set_enable_arm(sensor, now) IN
       /\ ~a.exit
       /\ mpu6050_gyro_set_enable(sensor, TRUE, now) =
              [ret |-> a.ret, s |-> [a.s EXCEPT !.gyro_en = 1],
               stored |-> a.stored]
    /\ LET a == mpu6050_accel_set_enable_arm(sensor, now) IN
       /\ ~a.exit
       /\ mpu6050_accel_set_enable(sensor, TRUE, now) =
              [ret |-> a.ret, s |-> [a.s EXCEPT !.accel_en = 1],
               stored |-> a.stored]
    /\ mpu6050_gyro_set_enable([sensor EXCEPT !.gyro_en = 0], FALSE, now) =
           mpu6050_gyro_set_enable(sensor, FALSE, now)
    /\ mpu6050_accel_set_enable([sensor EXCEPT !.accel_en = 0], FALSE, now) =
           mpu6050_accel_set_enable(sensor, FALSE, now)
    /\ gyro_poll_report(gyro_poll_section(gyro_poll_wake(sensor))) =
           gyro_poll_thread(sensor)
    /\ accel_poll_report(accel_poll_section(accel_poll_wake(sensor))) =
           accel_poll_thread(sensor)

NoCallInProgress == pc["gyro_cdev"].at = "idle" /\ pc["accel_cdev"].at = "idle"

(* C15: while a channel is enabled in non-batch mode and no call is in     *)
(* progress, its timer is armed (the callback is one step here, so it is   *)
(* never found running), however enable() and the callback interleave.     *)
C15_EnabledMeansArmed ==
    NoCallInProgress =>
        /\ (sensor.gyro_en # 0 /\ ~sensor.batch_gyro) => sensor.gyro_timer.active
        /\ (sensor.accel_en # 0 /\ ~sensor.batch_accel)
               => sensor.accel_timer.active

(* the positions of a thread at which it is between mutex_lock and         *)
(* mutex_unlock                                                            *)
InsideLock == {"enable_arm", "enable_flag", "disable_flag", "disable_cancel",
               "poll_delay", "section"}

(* C18: every enable, disable and set_poll_delay call and every lock       *)
(* section of a poll thread finishes, and op_lock is released when it      *)
(* does, on every path: the lock is held only by a thread inside such a    *)
(* section, and whenever it is held it is free again later.                *)
C18_LockSectionsFinish ==
    /\ [](\A th \in Threads :
              (sensor.op_lock = th) <=> (pc[th].at \in InsideLock))
    /\ (sensor.op_lock # "free") ~> (sensor.op_lock = "free")

(* the lock is held exactly by a thread inside a section *)
LockHeldInsideOnly ==
    \A th \in Threads : (sensor.op_lock = th) <=> (pc[th].at \in InsideLock)

(* C18 witness: a poll thread waits for op_lock while a caller holds it    *)
(* between hrtimer_start and the setting of the enable flag.               *)
C18_Witness ==
    /\ sensor.op_lock = "accel_cdev"
    /\ pc["accel_cdev"].at = "enable_flag"
    /\ pc["gyro_poll"].at = "lock"

(* C16: no sample is lost.  Whenever a channel's poll thread is idle with  *)
(* no wake left to consume, it has published as many samples as the        *)
(* channel's timer has expired.                                            *)
C16_SamplesMatchExpiries ==
    /\ sensor.gyro_wkp_flag = 0 => count.gyro_samples = count.gyro_expiries
    /\ sensor.accel_wkp_flag = 0 => count.accel_samples = count.accel_expiries

(* C17: once mpu6050_remove has returned, and after the error path of a    *)
(* failed probe, both enable flags are 0, neither timer is armed or can be *)
(* armed again by a callback that is still running, both poll threads have *)
(* exited and the chip is powered off.                                     *)
C17_TeardownLeavesNothing ==
    ~Bound =>
        /\ sensor.gyro_en = 0 /\ sensor.accel_en = 0
        /\ ~sensor.gyro_timer.active /\ ~sensor.accel_timer.active
        /\ pc["gyro_timer"].at = "idle" /\ pc["accel_timer"].at = "idle"
        /\ sensor.gyr_task = "exited" /\ sensor.accel_task = "exited"
        /\ ~sensor.power_enabled

(* what the teardown does reach: timers off the queue at the moment        *)
(* mpu6050_remove returns, poll threads exited, chip powered off           *)
TeardownStopsThreads ==
    ~Bound =>
        /\ sensor.gyr_task = "exited" /\ sensor.accel_task = "exited"
        /\ ~sensor.power_enabled

(* the resume work is declared but never initialised or queued: it is      *)
(* never pending, so no disable ever has it to cancel                      *)
ResumeWorkNeverPending == ~sensor.resume_work

(* the calibration fields are zeroed by probe and written by nothing else  *)
CalibrationNeverWritten ==
    /\ sensor.acc_use_cal = mpu6050_probe.acc_use_cal
    /\ sensor.acc_cal_params = mpu6050_probe.acc_cal_params

(* C21: a disabled channel's timer is dormant.  In every state where a     *)
(* channel's enable flag is 0 and no enable or disable call on it is in    *)
(* progress, the channel's timer is not armed, whatever a timer callback   *)
(* running alongside the disable has done.                                 *)
C21_DisabledMeansDormant ==
    NoCallInProgress =>
        /\ sensor.gyro_en = 0 => ~sensor.gyro_timer.active
        /\ sensor.accel_en = 0 => ~sensor.accel_timer.active

(* C22: a re-arm by a timer callback uses the interval that is stored at   *)
(* that moment; when the last call to have returned is a set_poll_delay on *)
(* the channel, that is the interval this call asked for, clamped.         *)
C22_RearmUsesStoredInterval ==
    [][/\ (pc["gyro_timer"].at = "rearm" /\ pc["gyro_timer"].arg # 0
           /\ pc'["gyro_timer"].at = "idle")
          => /\ sensor'.gyro_timer = Armed(sensor.gyro_poll_ms, now)
             /\ last.op = "gyro_poll_delay"
                   => sensor'.gyro_timer.expires
                          = now + gyro_clamp_delay(last.arg)
       /\ (pc["accel_timer"].at = "rearm" /\ pc["accel_timer"].arg # 0
           /\ pc'["accel_timer"].at = "idle")
          => /\ sensor'.accel_timer = Armed(sensor.accel_poll_ms, now)
             /\ last.op = "accel_poll_delay"
                   => sensor'.accel_timer.expires
                          = now + accel_clamp_delay(last.arg)]_vars

(* a callback has re-armed the gyro timer with the interval that a         *)
(* set_poll_delay stored while the timer was running on the previous one   *)
C22_Witness ==
    /\ last.op = "gyro_rearm" /\ last.arg = 200
    /\ sensor.gyro_timer = Armed(200, now)
    /\ sensor.gyro_poll_ms = 200

(* C23: op_lock is never held across a sleep.  No thread that is inside    *)
(* the power-up delay of mpu6050_power_ctl or the gyro stabilisation delay *)
(* of mpu6050_switch_engine owns op_lock.                                  *)
C23_NoSleepUnderLock ==
    \A th \in Threads :
        pc[th].at \in {"msleep_power_up", "msleep_sensor_up"}
            => sensor.op_lock # th

(* every sleep of an enable is in fact taken with the lock held *)
SleepsOnlyUnderLock ==
    \A th \in Threads :
        pc[th].at \in {"msleep_power_up", "msleep_sensor_up"}
            => sensor.op_lock = th

(* which statements of the teardown have run *)
RemoveDone(st) ==
    \E i \in 1 .. pc["remove"].arg : remove_statements[i] = st

(* C24: the teardown cancels a channel's timer only after that channel's   *)
(* poll thread has been asked to stop, woken and joined: once the cancel   *)
(* of a channel's timer has run, the channel's poll thread has exited.     *)
C24_StopBeforeCancel ==
    /\ RemoveDone("cancel_gyro_timer") => sensor.gyr_task = "exited"
    /\ RemoveDone("cancel_accel_timer") => sensor.accel_task = "exited"

(* C25: a poll thread that has been told to stop exits its loop; waiting   *)
(* at the top of the loop when told, it publishes no further sample, and   *)
(* an exited poll thread publishes nothing and stays exited.               *)
C25_StoppedWorkerExits ==
    /\ (sensor.gyr_task = "stopping") ~> (sensor.gyr_task = "exited")
    /\ (sensor.accel_task = "stopping") ~> (sensor.accel_task = "exited")
    /\ [][/\ (sensor.gyr_task = "stopping" /\ pc["gyro_poll"].at = "idle")
             => /\ count'.gyro_samples = count.gyro_samples
                /\ sensor'.gyro_dev = sensor.gyro_dev
          /\ sensor.gyr_task = "exited"
             => /\ count'.gyro_samples = count.gyro_samples
                /\ sensor'.gyro_dev = sensor.gyro_dev
                /\ sensor'.gyr_task = "exited"
          /\ (sensor.accel_task = "stopping" /\ pc["accel_poll"].at = "idle")
             => /\ count'.accel_samples = count.accel_samples
                /\ sensor'.accel_dev = sensor.accel_dev
          /\ sensor.accel_task = "exited"
             => /\ count'.accel_samples = count.accel_samples
                /\ sensor'.accel_dev = sensor.accel_dev
                /\ sensor'.accel_task = "exited"]_vars

(* C25 witness: the gyro poll thread has published once; told to stop      *)
(* with a second wake pending, it has cleared that wake and exited without *)
(* a second sample                                                         *)
C25_Witness ==
    /\ sensor.gyr_task = "exited"
    /\ pc["gyro_poll"] = [at |-> "exited", arg |-> 1]
    /\ count.gyro_samples = 1

(* C26: a channel's delay-change flag is consumed by that channel's poll   *)
(* thread at its next wake.  The section the thread runs after a wake,     *)
(* before it reports, is run with op_lock held and leaves the flag clear;  *)
(* and every step that clears a set flag is that section of that channel's *)
(* poll thread.                                                            *)
C26_DelayChangeConsumed ==
    [][/\ (pc["gyro_poll"].at = "section" /\ pc'["gyro_poll"].at = "report")
          => (sensor.op_lock = "gyro_poll" /\ ~sensor'.gyro_delay_change)
       /\ (sensor.gyro_delay_change /\ ~sensor'.gyro_delay_change)
          => /\ pc["gyro_poll"].at = "section"
             /\ pc'["gyro_poll"].at = "report"
             /\ sensor.op_lock = "gyro_poll"
       /\ (pc["accel_poll"].at = "section" /\ pc'["accel_poll"].at = "report")
          => (sensor.op_lock = "accel_poll" /\ ~sensor'.accel_delay_change)
       /\ (sensor.accel_delay_change /\ ~sensor'.accel_delay_change)
          => /\ pc["accel_poll"].at = "section"
             /\ pc'["accel_poll"].at = "report"
             /\ sensor.op_lock = "accel_poll"]_vars

(* C26 witness: set_poll_delay(gyro, 20) set the flag while the wake was   *)
(* pending; the gyro poll thread has left its section, about to report,    *)
(* and the flag is clear                                                   *)
C26_Witness ==
    /\ pc["gyro_poll"].at = "report"
    /\ sensor.gyro_poll_ms = 20
    /\ ~sensor.gyro_delay_change

(* C28: a poll thread never holds op_lock while it emits a sample.  In     *)
(* every state in which a poll thread is between its lock section and the  *)
(* end of its report, op_lock is not owned by that thread.                 *)
C28_NoLockWhileEmitting ==
    /\ pc["gyro_poll"].at = "report" => sensor.op_lock # "gyro_poll"
    /\ pc["accel_poll"].at = "report" => sensor.op_lock # "accel_poll"

(* C28 witness: a caller owns op_lock, inside an enable, while the gyro     *)
(* poll thread is about to remap and report                                *)
C28_Witness ==
    /\ pc["gyro_poll"].at = "report"
    /\ sensor.op_lock = "gyro_cdev"
    /\ pc["gyro_cdev"].at = "enable_arm"

(* the remap of this placement copies the axes and writes them back *)
RemapWritesBack ==
    sensor.pdata.place > 0 /\ sensor.pdata.place < MPU6050_AXIS_REMAP_TAB_SZ

(* C29: the axis record is accessed only under op_lock.  A poll thread     *)
(* that has copied the axes and not yet written them back owns op_lock,    *)
(* and the axes it copied are still the ones stored; a step of the axis    *)
(* writer is taken with op_lock held for it.                               *)
C29_AxisUnderLock ==
    /\ [](/\ (pc["gyro_poll"].at = "write_back" /\ RemapWritesBack)
             => /\ sensor.op_lock = "gyro_poll"
                /\ pc["gyro_poll"].arg = GyroAxes(sensor.axis)
          /\ (pc["accel_poll"].at = "write_back" /\ RemapWritesBack)
             => /\ sensor.op_lock = "accel_poll"
                /\ pc["accel_poll"].arg = AccelAxes(sensor.axis))
    /\ [][count'.stores # count.stores => sensor.op_lock = "axis_writer"]_vars

(* what belongs to one channel alone *)
GyroOwn(s) ==
    <<s.gyro_en, s.cfg.gyro_enable, s.gyro_poll_ms, s.gyro_delay_change,
      s.gyro_wkp_flag, s.gyro_timer>>

AccelOwn(s) ==
    <<s.accel_en, s.cfg.accel_enable, s.accel_poll_ms, s.accel_delay_change,
      s.accel_wkp_flag, s.accel_timer>>

(* C30: the channels share only the power flag and the divisor.  An        *)
(* enable, disable or set_poll_delay call on one channel leaves the other  *)
(* channel's enable flag, engine flag, stored interval, delay-change flag, *)
(* wake flag and timer as they were.                                       *)
C30_OtherChannelUntouched ==
    [][/\ ((\E enable \in 0 .. 1 : GyroCdevEnable(enable))
           \/ (\E delay \in Delays : GyroCdevPollDelay(delay)))
          => AccelOwn(sensor') = AccelOwn(sensor)
       /\ ((\E enable \in 0 .. 1 : AccelCdevEnable(enable))
           \/ (\E delay \in Delays, junk \in UninitInt :
                   AccelCdevPollDelay(delay, junk)))
          => GyroOwn(sensor') = GyroOwn(sensor)]_vars

(* C30 witness: the gyro has been disabled while the accelerometer runs:   *)
(* the accelerometer is still enabled, its engine on, its timer armed with *)
(* a wake pending, and the chip powered                                    *)
C30_Witness ==
    /\ last.op = "gyro_enable" /\ last.arg = 0
    /\ sensor.gyro_en = 0 /\ sensor.cfg.gyro_enable = 0
    /\ sensor.accel_en = 1 /\ sensor.cfg.accel_enable = 1
    /\ sensor.accel_timer.active /\ sensor.accel_wkp_flag = 1
    /\ sensor.power_enabled

(* C31: whatever is marked on has power.  In every state from the end of   *)
(* probe to the end of remove, a set engine flag or enable flag of either  *)
(* channel implies power_enabled.                                          *)
C31_MarkedOnMeansPowered ==
    (sensor.cfg.gyro_enable # 0 \/ sensor.cfg.accel_enable # 0
         \/ sensor.gyro_en # 0 \/ sensor.accel_en # 0)
        => sensor.power_enabled

(* the same while the device is bound: before mpu6050_remove has run *)
PoweredWhileBound == Bound => C31_MarkedOnMeansPowered

(* C32: a disabled channel publishes nothing.  Every turn of a poll        *)
(* thread, which consumes a wake and reports one sample, is taken while    *)
(* the channel's enable flag is set: a wake left by an expiry before the   *)
(* disable is not turned into a sample after the disable has returned.     *)
C32_NoPublishWhileDisabled ==
    [][/\ GyroPollThread => sensor.gyro_en # 0
       /\ AccelPollThread => sensor.accel_en # 0]_vars


(* C33: for each channel, each placement 1..7 and every 16-bit axis value, *)
(* each axis the remap stores back equals the exact integer product of the *)
(* table sign and the source axis, with no 16-bit wrap-around (a source of *)
(* -32768 under a sign of -1 included).                                    *)
C33_RemapExactProduct ==
    [][ /\ (RemapAccel /\ sensor.pdata.place \in 1 .. 7)
            => AccelAxes(sensor'.axis)
                   = RowApplied(mpu6050_accel_axis_remap_tab[sensor.pdata.place],
                                AccelAxes(sensor.axis))
        /\ (RemapGyro /\ sensor.pdata.place \in 1 .. 7)
            => GyroAxes(sensor'.axis)
                   = RowApplied(mpu6050_gyro_axis_remap_tab[sensor.pdata.place],
                                GyroAxes(sensor.axis))
      ]_vars

============================================================================
